---- MODULE Spec2Model ----
(***************************************************************************)
(* Model of the documentation cache of filament-docs-mcp                   *)
(* (src/src/documentation.ts): the versioned index kept on disk, the full  *)
(* sync, the single-section sync, the single-file upsert and the update    *)
(* policy that composes them.                                              *)
(*                                                                         *)
(* A path is the sequence of its '/'-separated segments, and a segment is  *)
(* the sequence of its tokens (maximal runs of text, with '-' and the      *)
(* '.md' extension as tokens of their own), so that split('/'),            *)
(* split('-'), endsWith('.md') and includes('/docs/') are computed.        *)
(***************************************************************************)
EXTENDS Integers, Sequences, FiniteSets, TLC

VARIABLES
    disk,      \* version -> the index file of that version, or Absent
    remote,    \* ref -> (path -> raw markdown of the file at that ref)
    now,       \* the wall clock, in days
    last,      \* the call that has just returned and what it answered
    prev       \* which call was made last, whatever happened since

vars == <<disk, remote, now, last, prev>>

----------------------------------------------------------------------------
(* Bounds of the model *)

MaxNow    == 8      \* the clock stops advancing here
MaxBucket == 2      \* no call is started that would make a bucket longer
MaxFeed   == 1      \* longest list of modified paths the change feed returns
MaxQuery  == 2      \* longest query searched for, in characters
MaxBody   == 2      \* longest of the short page bodies, in characters

----------------------------------------------------------------------------
(* Static configuration *)

DEFAULT_VERSION == "3.x"
DEFAULT_BRANCH  == "3.x"
StaleDays       == 7

Versions == {"3.x", "2.x"}

\* Object.entries(packageSections) of fetchDocStructure, in its order
PackageOrder ==
    <<"actions", "forms", "infolists", "notifications",
      "panels", "support", "tables", "widgets">>

PackageNames == {PackageOrder[i] : i \in 1..Len(PackageOrder)}

\* package name -> section title
packageSections ==
    [p \in PackageNames |->
        CASE p = "actions"       -> "Actions"
          [] p = "forms"         -> "Forms"
          [] p = "infolists"     -> "Infolists"
          [] p = "notifications" -> "Notifications"
          [] p = "panels"        -> "Panels"
          [] p = "support"       -> "Support"
          [] p = "tables"        -> "Tables"
          [] p = "widgets"       -> "Widgets"]

SectionTitles == {packageSections[p] : p \in PackageNames}

\* section title -> package name (the table of fetchSectionDocStructure)
sectionPackages ==
    [s \in SectionTitles |->
        CASE s = "Actions"       -> "actions"
          [] s = "Forms"         -> "forms"
          [] s = "Infolists"     -> "infolists"
          [] s = "Notifications" -> "notifications"
          [] s = "Panels"        -> "panels"
          [] s = "Support"       -> "support"
          [] s = "Tables"        -> "tables"
          [] s = "Widgets"       -> "widgets"]

----------------------------------------------------------------------------
(* Optional values *)

Absent == [absent |-> TRUE]          \* no index file for the version
IsAbsent(x) == "absent" \in DOMAIN x

Null == [null |-> TRUE]              \* processMarkdownFile's null
IsNull(x) == "null" \in DOMAIN x

NoSection == ""                      \* section argument not given (falsy)
NoVersion == ""                      \* version argument not given (falsy)
NoSubsection == <<>>                 \* DocPage.subsection undefined

\* The lookup tables are object literals and the sections of an index are a
\* plain object: a lookup of a name that Object.prototype defines answers
\* the inherited member, which is truthy.  "constructor" stands for these
\* names, ObjectFunction for the member it answers and ObjectFunctionKey
\* for that member used as a property key (String(Object)).
ObjectPrototypeKeys == {"constructor"}
ObjectFunction      == "[Function: Object]"
ObjectFunctionKey   == "function Object() { [native code] }"

\* a lookup result used as a property key
KeyOf(value) == IF value = ObjectFunction THEN ObjectFunctionKey ELSE value

NoTitle == ""                        \* DocSection.title not written by JSON.stringify

----------------------------------------------------------------------------
(* Paths and names *)

Seg(s) == <<s>>

Md(a, b) == <<a, "-", b, ".md">>     \* the file name a-b.md

DocsPath(packageName) == <<Seg("packages"), Seg(packageName), Seg("docs")>>

PathA == DocsPath("forms") \o <<Md("01", "a")>>
PathB == DocsPath("forms") \o <<Md("02", "b")>>
PathT == DocsPath("panels") \o <<<<"advanced", "-", "usage">>, Md("01", "t")>>
PathX == DocsPath("plugin") \o <<Md("01", "a")>>
PathP == DocsPath("constructor") \o <<Md("01", "a")>>
PathS == <<Seg("docs"), Md("01", "a")>>

\* the markdown files of the remote tree
DocPaths == {PathA, PathB, PathT}

\* name.endsWith('.md')
EndsWithMd(name) == Len(name) > 0 /\ name[Len(name)] = ".md"

\* filename.includes('/docs/')
IncludesDocs(path) == \E i \in 2..(Len(path) - 1) : path[i] = Seg("docs")

\* word.charAt(0).toUpperCase() + word.slice(1), on the tokens of the model
Capitalize(tok) ==
    CASE tok = "advanced" -> "Advanced"
      [] tok = "usage"    -> "Usage"
      [] tok = "fields"   -> "Fields"
      [] OTHER            -> tok

\* IsSubsection that asks for more than 5 segments
IsSubsectionAboveFive(pathParts) == Len(pathParts) > 5

\* pathParts.length > 4: packages/name/docs/subdir/file.md
IsSubsection(pathParts) == Len(pathParts) > 4

\* subsectionName.split('-').map(capitalize).join(' ')
FormatSubsectionName(subsectionName) ==
    [i \in 1..Len(subsectionName) |->
        IF subsectionName[i] = "-" THEN " "
        ELSE IF i = 1 \/ subsectionName[i - 1] = "-"
             THEN Capitalize(subsectionName[i])
             ELSE subsectionName[i]]

\* a.name.localeCompare(b.name) on the names of the model: position in
\* the collation order
NameOrder ==
    <<Md("01", "a"), Md("02", "b"), <<"advanced", "-", "usage">>,
      <<"fields">>, <<"README", ".txt">>>>

NameRank(name) == CHOOSE i \in 1..Len(NameOrder) : NameOrder[i] = name

RECURSIVE InsertByName(_, _)
InsertByName(sorted, file) ==
    IF sorted = <<>> THEN <<file>>
    ELSE IF NameRank(file.name) < NameRank(Head(sorted).name)
         THEN <<file>> \o sorted
         ELSE <<Head(sorted)>> \o InsertByName(Tail(sorted), file)

\* files.sort((a, b) => a.name.localeCompare(b.name)), a stable sort
RECURSIVE SortByName(_)
SortByName(files) ==
    IF files = <<>> THEN <<>>
    ELSE InsertByName(SortByName(SubSeq(files, 1, Len(files) - 1)),
                      files[Len(files)])

----------------------------------------------------------------------------
(* The remote tree *)

FileEntry(dir, name) == [name |-> name, path |-> dir \o <<name>>, type |-> "file"]
DirEntry(dir, name)  == [name |-> name, path |-> dir \o <<name>>, type |-> "dir"]

\* The contents API answers with the direct children of the directory.
RemoteListing(dirPath) ==
    IF dirPath = DocsPath("forms")
    THEN <<FileEntry(dirPath, Md("02", "b")),
           FileEntry(dirPath, <<"README", ".txt">>),
           DirEntry(dirPath, <<"fields">>),
           FileEntry(dirPath, Md("01", "a"))>>
    ELSE IF dirPath = DocsPath("panels")
    THEN <<DirEntry(dirPath, <<"advanced", "-", "usage">>)>>
    ELSE <<>>

\* raw markdown documents
RawDocs == {"# Alpha\n[one](u)", "# Beta\ntwo", ""}

\* extractTitleFromMarkdown on the documents of the model: none has front
\* matter; the first '# ' heading, else the first line, else the fallback
extractTitleFromMarkdown(content) ==
    CASE content = "# Alpha\n[one](u)" -> "Alpha"
      [] content = "# Beta\ntwo"       -> "Beta"
      [] content = ""                  -> "Untitled Document"

\* parseMarkdownContent on the documents of the model: link markup is
\* replaced by its label, the result is trimmed
parseMarkdownContent(content) ==
    CASE content = "# Alpha\n[one](u)" -> "# Alpha\none"
      [] content = "# Beta\ntwo"       -> "# Beta\ntwo"
      [] content = ""                  -> ""

----------------------------------------------------------------------------
(* The content source.  env is what the outside world answers during one  *)
(* call: env.tree the remote tree, env.listFail the directories whose      *)
(* listing fails on every attempt, env.fetchFail the files whose fetch     *)
(* fails on every attempt, env.branches the answer of the branch query     *)
(* and env.feed the answer of the commit queries.                          *)

Failed == [ok |-> FALSE]

\* the raw file of path at branch, or the error of the last attempt
fetchGitHubContent(path, branch, env) ==
    IF path \in env.fetchFail \/ path \notin DOMAIN env.tree[branch]
    THEN Failed
    ELSE [ok |-> TRUE, data |-> env.tree[branch][path]]

\* the entries of the directory, or [] once the attempts are used up
listGitHubDirectory(path, branch, env) ==
    IF path \in env.listFail THEN <<>> ELSE RemoteListing(path)

\* /^\d+\.x$/.test(name) on the branch names of the model
LooksLikeVersion(name) == name \in {"1.x", "2.x", "3.x", "4.x"}

\* the branches named like versions, or [DEFAULT_VERSION] when the query
\* fails
checkAvailableVersions(env) ==
    IF env.branches.ok
    THEN {name \in env.branches.names : LooksLikeVersion(name)}
    ELSE {DEFAULT_VERSION}

\* the distinct modified markdown paths under a docs directory, or [] when
\* a query fails
RECURSIVE KeepDocs(_, _)
KeepDocs(files, modifiedFiles) ==
    IF files = <<>> THEN modifiedFiles
    ELSE LET filename == Head(files)
             seen == \E i \in 1..Len(modifiedFiles) : modifiedFiles[i] = filename
         IN IF IncludesDocs(filename) /\ EndsWithMd(filename[Len(filename)]) /\ ~seen
            THEN KeepDocs(Tail(files), Append(modifiedFiles, filename))
            ELSE KeepDocs(Tail(files), modifiedFiles)

checkModifiedFiles(version, since, env) ==
    IF env.feed.ok THEN KeepDocs(env.feed.files, <<>>) ELSE <<>>

----------------------------------------------------------------------------
(* Pages *)

processMarkdownFile(filePath, version, section, subsection, env) ==
    LET got == fetchGitHubContent(filePath, DEFAULT_BRANCH, env) IN
    IF ~got.ok THEN Null
    ELSE LET rawContent == got.data
             title      == extractTitleFromMarkdown(rawContent)
             content    == parseMarkdownContent(rawContent)
         IN IF content = "" \/ title = "" THEN Null
            ELSE [title      |-> title,
                  url        |-> [ref |-> version, path |-> filePath],
                  content    |-> content,
                  rawContent |-> rawContent,
                  version    |-> version,
                  section    |-> section,
                  subsection |-> subsection,
                  path       |-> filePath]

----------------------------------------------------------------------------
(* The index store *)

NewSection(title) == [title |-> title, pages |-> <<>>, subsections |-> <<>>]

\* the index has a section of its own under the title
HasOwnSection(index, title) == title \in DOMAIN index.sections

\* index.sections[title] is truthy
HasSection(index, title) ==
    HasOwnSection(index, title) \/ title \in ObjectPrototypeKeys

HasSubsection(index, title, sub) == sub \in DOMAIN index.sections[title].subsections

\* index.sections[title] = {title, pages: [], subsections: {}}
PutSection(index, title) ==
    [index EXCEPT !.sections = (KeyOf(title) :> NewSection(title)) @@ @]

\* index.sections[title].subsections[sub] = []
PutSubsection(index, title, sub) ==
    [index EXCEPT !.sections[title].subsections = (sub :> <<>>) @@ @]

\* getDocIndex: the index read from the file of the version; when there is
\* none, a new empty index, written to the file
getDocIndex(d, version, t) ==
    IF ~IsAbsent(d[version])
    THEN [disk |-> d, index |-> d[version]]
    ELSE LET newIndex == [version |-> version, lastUpdated |-> t, sections |-> <<>>]
         IN [disk |-> [d EXCEPT ![version] = newIndex], index |-> newIndex]

\* JSON.stringify(index): a member whose value is a function is left out
Stringify(index) ==
    [index EXCEPT !.sections =
        [s \in DOMAIN index.sections |->
            IF index.sections[s].title = ObjectFunction
            THEN [index.sections[s] EXCEPT !.title = NoTitle]
            ELSE index.sections[s]]]

\* saveDocIndex: the file of index.version is overwritten
saveDocIndex(d, index) == [d EXCEPT ![index.version] = Stringify(index)]

----------------------------------------------------------------------------
(* Full sync *)

\* index.sections[title].pages.push(page)
PushPage(index, title, page) ==
    [index EXCEPT !.sections[title].pages = Append(@, page)]

\* index.sections[title].subsections[sub].push(page)
PushSubPage(index, title, sub, page) ==
    [index EXCEPT !.sections[title].subsections[sub] = Append(@, page)]

\* one turn of the loop over the listed files
SyncFile(index, file, version, sectionTitle, env) ==
    IF file.type = "file" /\ EndsWithMd(file.name)
    THEN LET pathParts == file.path
             isSubsection == IsSubsection(pathParts)
         IN IF isSubsection
            THEN LET formattedSubsectionName == FormatSubsectionName(pathParts[4])
                     index1 == IF HasSubsection(index, sectionTitle, formattedSubsectionName)
                               THEN index
                               ELSE PutSubsection(index, sectionTitle, formattedSubsectionName)
                     page == processMarkdownFile(file.path, version, sectionTitle,
                                                 formattedSubsectionName, env)
                 IN IF ~IsNull(page)
                    THEN PushSubPage(index1, sectionTitle, formattedSubsectionName, page)
                    ELSE index1
            ELSE LET page == processMarkdownFile(file.path, version, sectionTitle,
                                                 NoSubsection, env)
                 IN IF ~IsNull(page) THEN PushPage(index, sectionTitle, page) ELSE index
    ELSE index

RECURSIVE SyncFiles(_, _, _, _, _)
SyncFiles(index, files, version, sectionTitle, env) ==
    IF files = <<>> THEN index
    ELSE SyncFiles(SyncFile(index, Head(files), version, sectionTitle, env),
                   Tail(files), version, sectionTitle, env)

\* SyncPackage with the section initialized after a listing that succeeded
SyncPackageListFirst(index, packageName, version, env) ==
    IF DocsPath(packageName) \in env.listFail THEN index
    ELSE LET sectionTitle == packageSections[packageName]
             index1 == IF HasSection(index, sectionTitle) THEN index
                       ELSE PutSection(index, sectionTitle)
             files == SortByName(listGitHubDirectory(DocsPath(packageName), version, env))
         IN SyncFiles(index1, files, version, sectionTitle, env)

\* one turn of the loop over the packages
SyncPackage(index, packageName, version, env) ==
    LET sectionTitle == packageSections[packageName]
        index1 == IF HasSection(index, sectionTitle) THEN index
                  ELSE PutSection(index, sectionTitle)
        files == SortByName(listGitHubDirectory(DocsPath(packageName), version, env))
    IN SyncFiles(index1, files, version, sectionTitle, env)

\* the loop over the packages, left at the first listing that fails
RECURSIVE SyncPackagesUntilFailure(_, _, _, _)
SyncPackagesUntilFailure(index, packages, version, env) ==
    IF packages = <<>> \/ DocsPath(Head(packages)) \in env.listFail THEN index
    ELSE SyncPackagesUntilFailure(SyncPackage(index, Head(packages), version, env),
                                  Tail(packages), version, env)

RECURSIVE SyncPackages(_, _, _, _)
SyncPackages(index, packages, version, env) ==
    IF packages = <<>> THEN index
    ELSE SyncPackages(SyncPackage(index, Head(packages), version, env),
                      Tail(packages), version, env)

fetchDocStructure(d, version, env, t) ==
    LET got    == getDocIndex(d, version, t)
        index0 == [got.index EXCEPT !.lastUpdated = t]
        index1 == SyncPackages(index0, PackageOrder, version, env)
    IN [disk |-> saveDocIndex(got.disk, index1), index |-> index1]

----------------------------------------------------------------------------
(* Single-section sync *)

\* one turn of the loop over the listed files
SectionSyncFile(index, file, version, sectionName, env) ==
    IF file.type = "file" /\ EndsWithMd(file.name)
    THEN LET pathParts == file.path
             isSubsection == IsSubsection(pathParts)
         IN IF isSubsection
            THEN LET formattedSubsectionName == FormatSubsectionName(pathParts[4])
                     index1 == IF HasSubsection(index, sectionName, formattedSubsectionName)
                               THEN index
                               ELSE PutSubsection(index, sectionName, formattedSubsectionName)
                     page == processMarkdownFile(file.path, version, sectionName,
                                                 formattedSubsectionName, env)
                 IN IF ~IsNull(page)
                    THEN PushSubPage(index1, sectionName, formattedSubsectionName, page)
                    ELSE index1
            ELSE LET page == processMarkdownFile(file.path, version, sectionName,
                                                 NoSubsection, env)
                 IN IF ~IsNull(page) THEN PushPage(index, sectionName, page) ELSE index
    ELSE index

RECURSIVE SectionSyncFiles(_, _, _, _, _)
SectionSyncFiles(index, files, version, sectionName, env) ==
    IF files = <<>> THEN index
    ELSE SectionSyncFiles(SectionSyncFile(index, Head(files), version, sectionName, env),
                          Tail(files), version, sectionName, env)

\* ClearSection that leaves an existing section as it is
ClearSectionKeep(index, sectionName) ==
    IF ~HasSection(index, sectionName)
    THEN PutSection(index, sectionName)
    ELSE index

\* the section made if it is missing, emptied if it is there; the
\* assignments to an inherited member do not change the index
ClearSection(index, sectionName) ==
    IF ~HasSection(index, sectionName)
    THEN PutSection(index, sectionName)
    ELSE IF ~HasOwnSection(index, sectionName) THEN index
    ELSE [index EXCEPT !.sections[sectionName].pages = <<>>,
                       !.sections[sectionName].subsections = <<>>]

\* packageSections[sectionName] of fetchSectionDocStructure; "" stands for
\* undefined
sectionPackagesOrNone(sectionName) ==
    IF sectionName \in DOMAIN sectionPackages THEN sectionPackages[sectionName]
    ELSE IF sectionName \in ObjectPrototypeKeys THEN ObjectFunction
    ELSE ""

\* fetchSectionDocStructure that leaves lastUpdated as it was loaded
fetchSectionDocStructureNoStamp(d, version, sectionName, env, t) ==
    LET got == getDocIndex(d, version, t) IN
    IF sectionPackagesOrNone(sectionName) = ""
    THEN [disk |-> got.disk, index |-> got.index]
    ELSE LET packageName == sectionPackagesOrNone(sectionName)
             index0 == ClearSection(got.index, sectionName)
             files  == SortByName(listGitHubDirectory(DocsPath(packageName), version, env))
             index1 == SectionSyncFiles(index0, files, version, sectionName, env)
         IN [disk |-> saveDocIndex(got.disk, index1), index |-> index1]

\* an unknown section throws inside the try block; the catch block logs the
\* error and returns the index as loaded
fetchSectionDocStructure(d, version, sectionName, env, t) ==
    LET got == getDocIndex(d, version, t) IN
    IF sectionPackagesOrNone(sectionName) = ""
    THEN [disk |-> got.disk, index |-> got.index]
    ELSE LET packageName == sectionPackagesOrNone(sectionName)
             index0 == ClearSection(got.index, sectionName)
             files  == SortByName(listGitHubDirectory(DocsPath(packageName), version, env))
             index1 == SectionSyncFiles(index0, files, version, sectionName, env)
             index2 == [index1 EXCEPT !.lastUpdated = t]
         IN [disk |-> saveDocIndex(got.disk, index2), index |-> index2]

----------------------------------------------------------------------------
(* Single-file upsert *)

\* SectionOfPackage with the title of the last package for every package
SectionOfPackageAsWidgets(packageName) ==
    IF Len(packageName) = 1 /\ packageName[1] \in PackageNames
    THEN packageSections["widgets"]
    ELSE ""

\* packageSections[packageName] for a path segment; "" stands for undefined
SectionOfPackage(packageName) ==
    IF Len(packageName) = 1 /\ packageName[1] \in PackageNames
    THEN packageSections[packageName[1]]
    ELSE IF Len(packageName) = 1 /\ packageName[1] \in ObjectPrototypeKeys
    THEN ObjectFunction
    ELSE ""

\* pages.filter(p => p.path !== filePath)
RECURSIVE FilterPath(_, _)
FilterPath(pages, filePath) ==
    IF pages = <<>> THEN <<>>
    ELSE IF Head(pages).path # filePath
         THEN <<Head(pages)>> \o FilterPath(Tail(pages), filePath)
         ELSE FilterPath(Tail(pages), filePath)

\* ReplacePage without the removal of the earlier pages of the path
ReplacePageNoFilter(pages, filePath, page) == Append(pages, page)

\* the bucket without the pages of filePath, then the new page at its end
ReplacePage(pages, filePath, page) == Append(FilterPath(pages, filePath), page)

\* processModifiedFile with the earlier pages of the path removed before
\* the new page is tested
processModifiedFileFilterFirst(d, filePath, version, env, t) ==
    LET pathParts == filePath IN
    IF Len(pathParts) < 3 THEN [disk |-> d, ret |-> FALSE]
    ELSE
    LET packageName == pathParts[2]
        sectionName == SectionOfPackage(packageName)
    IN
    IF sectionName = "" THEN [disk |-> d, ret |-> FALSE]
    ELSE
    LET got == getDocIndex(d, version, t)
        index == got.index
        isSubsection == IsSubsection(pathParts)
        key == KeyOf(sectionName)
        index1 == IF HasSection(index, key) THEN index
                  ELSE PutSection(index, sectionName)
        index3 ==
            IF isSubsection
            THEN LET formattedSubsectionName == FormatSubsectionName(pathParts[4])
                     index2 == IF HasSubsection(index1, key, formattedSubsectionName)
                               THEN index1
                               ELSE PutSubsection(index1, key, formattedSubsectionName)
                     page == processMarkdownFile(filePath, version, sectionName,
                                                 formattedSubsectionName, env)
                 IN IF ~IsNull(page)
                    THEN [index2 EXCEPT
                            !.sections[key].subsections[formattedSubsectionName] =
                                ReplacePage(@, filePath, page)]
                    ELSE [index2 EXCEPT
                            !.sections[key].subsections[formattedSubsectionName] =
                                FilterPath(@, filePath)]
            ELSE LET page == processMarkdownFile(filePath, version, sectionName,
                                                 NoSubsection, env)
                 IN IF ~IsNull(page)
                    THEN [index1 EXCEPT
                            !.sections[key].pages =
                                ReplacePage(@, filePath, page)]
                    ELSE [index1 EXCEPT
                            !.sections[key].pages = FilterPath(@, filePath)]
    IN [disk |-> saveDocIndex(got.disk, index3), ret |-> TRUE]

processModifiedFile(d, filePath, version, env, t) ==
    LET pathParts == filePath IN
    IF Len(pathParts) < 3 THEN [disk |-> d, ret |-> FALSE]
    ELSE
    LET packageName == pathParts[2]
        sectionName == SectionOfPackage(packageName)
    IN
    IF sectionName = "" THEN [disk |-> d, ret |-> FALSE]
    ELSE
    LET got == getDocIndex(d, version, t)
        index == got.index
        isSubsection == IsSubsection(pathParts)
        key == KeyOf(sectionName)
        index1 == IF HasSection(index, key) THEN index
                  ELSE PutSection(index, sectionName)
        index3 ==
            IF isSubsection
            THEN LET formattedSubsectionName == FormatSubsectionName(pathParts[4])
                     index2 == IF HasSubsection(index1, key, formattedSubsectionName)
                               THEN index1
                               ELSE PutSubsection(index1, key, formattedSubsectionName)
                     page == processMarkdownFile(filePath, version, sectionName,
                                                 formattedSubsectionName, env)
                 IN IF ~IsNull(page)
                    THEN [index2 EXCEPT
                            !.sections[key].subsections[formattedSubsectionName] =
                                ReplacePage(@, filePath, page)]
                    ELSE index2
            ELSE LET page == processMarkdownFile(filePath, version, sectionName,
                                                 NoSubsection, env)
                 IN IF ~IsNull(page)
                    THEN [index1 EXCEPT
                            !.sections[key].pages =
                                ReplacePage(@, filePath, page)]
                    ELSE index1
    IN [disk |-> saveDocIndex(got.disk, index3), ret |-> TRUE]

----------------------------------------------------------------------------
(* The update policy.  The answer carries, next to the index files, the    *)
(* report and the sequence of the calls made (trace).                      *)

Call(fn, version) == [fn |-> fn, version |-> version, path |-> <<>>]

CallOn(fn, version, path) == [fn |-> fn, version |-> version, path |-> path]

Report(kind, warning, found, updated) ==
    [kind |-> kind, warning |-> warning, found |-> found, updated |-> updated]

\* the loop over the modified files: processModifiedFile on each, counting
\* the calls that answer true
RECURSIVE UpsertAll(_, _, _, _, _)
UpsertAll(d, files, version, env, t) ==
    IF files = <<>> THEN [disk |-> d, updatedCount |-> 0, trace |-> <<>>]
    ELSE LET one  == processModifiedFile(d, Head(files), version, env, t)
             rest == UpsertAll(one.disk, Tail(files), version, env, t)
         IN [disk |-> rest.disk,
             updatedCount |-> (IF one.ret THEN 1 ELSE 0) + rest.updatedCount,
             trace |-> <<CallOn("processModifiedFile", version, Head(files))>>
                       \o rest.trace]

\* the modified files, those of the other sections not filtered out
SectionFilesUnfiltered(modifiedFiles, section) == modifiedFiles

\* modifiedFiles.filter(file => packageSections[file.split('/')[1]] === section)
RECURSIVE SectionFiles(_, _)
SectionFiles(modifiedFiles, section) ==
    IF modifiedFiles = <<>> THEN <<>>
    ELSE LET file == Head(modifiedFiles)
             keep == Len(file) >= 3 /\ SectionOfPackage(file[2]) = section
         IN (IF keep THEN <<file>> ELSE <<>>) \o SectionFiles(Tail(modifiedFiles), section)

\* daysSinceUpdate > 7
IsStale(index, t) == t - index.lastUpdated > StaleDays

\* force || daysSinceUpdate > 7 || !index.sections[section]
NeedsSectionSync(index, force, section, t) ==
    force \/ IsStale(index, t) \/ ~HasSection(index, section)

\* NeedsFullSync with daysSinceUpdate >= 7
NeedsFullSyncAtSeven(index, t) ==
    t - index.lastUpdated >= StaleDays \/ DOMAIN index.sections = {}

\* daysSinceUpdate > 7 || Object.keys(index.sections).length === 0
NeedsFullSync(index, t) == IsStale(index, t) \/ DOMAIN index.sections = {}

\* the branch taken when a section is requested
UpdateSection(d, targetVersion, force, section, warning, trace0, env, t) ==
    LET got == getDocIndex(d, targetVersion, t)
        index == got.index
        trace1 == Append(trace0, Call("getDocIndex", targetVersion))
    IN
    IF NeedsSectionSync(index, force, section, t)
    THEN LET done == fetchSectionDocStructure(got.disk, targetVersion, section, env, t)
         IN [disk |-> done.disk,
             report |-> Report("section updated", warning, 0, 0),
             trace |-> Append(trace1, Call("fetchSectionDocStructure", targetVersion))]
    ELSE LET modifiedFiles == checkModifiedFiles(targetVersion, index.lastUpdated, env)
             sectionFiles == SectionFiles(modifiedFiles, section)
             trace2 == Append(trace1, Call("checkModifiedFiles", targetVersion))
         IN IF Len(sectionFiles) > 0
            THEN LET done == UpsertAll(got.disk, sectionFiles, targetVersion, env, t)
                     again == getDocIndex(done.disk, targetVersion, t)
                     index1 == [again.index EXCEPT !.lastUpdated = t]
                 IN [disk |-> saveDocIndex(again.disk, index1),
                     report |-> Report("section files updated", warning,
                                       Len(sectionFiles), done.updatedCount),
                     trace |-> trace2 \o done.trace
                               \o <<Call("getDocIndex", targetVersion),
                                    Call("saveDocIndex", targetVersion)>>]
            ELSE [disk |-> got.disk,
                  report |-> Report("section up to date", warning, 0, 0),
                  trace |-> trace2]

\* the branches taken when no section is requested
UpdateAll(d, targetVersion, force, warning, trace0, env, t) ==
    IF force
    THEN LET done == fetchDocStructure(d, targetVersion, env, t)
         IN [disk |-> done.disk,
             report |-> Report("forced", warning, 0, 0),
             trace |-> Append(trace0, Call("fetchDocStructure", targetVersion))]
    ELSE
    LET got == getDocIndex(d, targetVersion, t)
        index == got.index
        trace1 == Append(trace0, Call("getDocIndex", targetVersion))
    IN
    IF NeedsFullSync(index, t)
    THEN LET done == fetchDocStructure(got.disk, targetVersion, env, t)
         IN [disk |-> done.disk,
             report |-> Report("updated", warning, 0, 0),
             trace |-> Append(trace1, Call("fetchDocStructure", targetVersion))]
    ELSE LET modifiedFiles == checkModifiedFiles(targetVersion, index.lastUpdated, env)
             trace2 == Append(trace1, Call("checkModifiedFiles", targetVersion))
         IN IF Len(modifiedFiles) > 0
            THEN LET done == UpsertAll(got.disk, modifiedFiles, targetVersion, env, t)
                     \* the index loaded before the loop is the one saved
                     index1 == [index EXCEPT !.lastUpdated = t]
                 IN [disk |-> saveDocIndex(done.disk, index1),
                     report |-> Report("files updated", warning,
                                       Len(modifiedFiles), done.updatedCount),
                     trace |-> trace2 \o done.trace
                               \o <<Call("saveDocIndex", targetVersion)>>]
            ELSE [disk |-> got.disk,
                  report |-> Report("up to date", warning, 0, 0),
                  trace |-> trace2]

\* updateDocumentation with the staleness test made before the force test
updateDocumentationStaleFirst(d, version, force, section, checkVersions, env, t) ==
    LET fallback == checkVersions /\ version # NoVersion
                    /\ version \notin checkAvailableVersions(env)
        targetVersion == IF version = NoVersion \/ fallback
                         THEN DEFAULT_VERSION ELSE version
        trace0 == IF checkVersions
                  THEN <<Call("checkAvailableVersions", NoVersion)>> ELSE <<>>
        fresh == ~NeedsFullSync(getDocIndex(d, targetVersion, t).index, t)
    IN IF section # NoSection
       THEN UpdateSection(d, targetVersion, force, section, fallback, trace0, env, t)
       ELSE UpdateAll(d, targetVersion, force /\ ~fresh, fallback, trace0, env, t)

\* updateDocumentation that keeps the requested version after the warning
updateDocumentationNoFallback(d, version, force, section, checkVersions, env, t) ==
    LET fallback == checkVersions /\ version # NoVersion
                    /\ version \notin checkAvailableVersions(env)
        targetVersion == IF version = NoVersion THEN DEFAULT_VERSION ELSE version
        trace0 == IF checkVersions
                  THEN <<Call("checkAvailableVersions", NoVersion)>> ELSE <<>>
    IN IF section # NoSection
       THEN UpdateSection(d, targetVersion, force, section, fallback, trace0, env, t)
       ELSE UpdateAll(d, targetVersion, force, fallback, trace0, env, t)

updateDocumentation(d, version, force, section, checkVersions, env, t) ==
    LET fallback == checkVersions /\ version # NoVersion
                    /\ version \notin checkAvailableVersions(env)
        targetVersion == IF version = NoVersion \/ fallback
                         THEN DEFAULT_VERSION ELSE version
        trace0 == IF checkVersions
                  THEN <<Call("checkAvailableVersions", NoVersion)>> ELSE <<>>
    IN IF section # NoSection
       THEN UpdateSection(d, targetVersion, force, section, fallback, trace0, env, t)
       ELSE UpdateAll(d, targetVersion, force, fallback, trace0, env, t)

---------------------------------------------------------------------------------------------------------------------------------------------------
(* The search engine.  A text is the sequence of its characters; the       *)
(* title and the body of a page searched are kept as the sequence of       *)
(* their runs (a character and how often it is repeated).                  *)

Min(a, b) == IF a < b THEN a ELSE b
Max(a, b) == IF a > b THEN a ELSE b

SnippetBefore == 100     \* characters kept before the first match
SnippetAfter  == 200     \* characters kept from the first match on
TitleWeight   == 10      \* score of a term found in the title

Ellipsis == <<".", ".", ".">>

\* the runs of a text
Runs(chars) ==
    LET starts == {i \in 1..Len(chars) : i = 1 \/ chars[i] # chars[i - 1]}
        StartOf(k) == CHOOSE i \in starts : Cardinality({j \in starts : j < i}) = k - 1
    IN [k \in 1..Cardinality(starts) |->
           [char |-> chars[StartOf(k)],
            n    |-> (IF k = Cardinality(starts) THEN Len(chars) + 1 ELSE StartOf(k + 1))
                     - StartOf(k)]]

\* the text of a sequence of runs
RECURSIVE Chars(_)
Chars(runs) ==
    IF runs = <<>> THEN <<>>
    ELSE [i \in 1..Head(runs).n |-> Head(runs).char] \o Chars(Tail(runs))

IsSpace(c) == c = " " \/ c = "\n"

\* toLowerCase on the characters of the model
LowerChar(c) ==
    CASE c = "A" -> "a"
      [] c = "B" -> "b"
      [] OTHER   -> c

ToLowerCase(text) == [i \in 1..Len(text) |-> LowerChar(text[i])]

\* the first position from i on that holds no white space
RECURSIVE SkipSpace(_, _)
SkipSpace(text, i) ==
    IF i <= Len(text) /\ IsSpace(text[i]) THEN SkipSpace(text, i + 1) ELSE i

\* text.split(/\s+/): a separator at either end leaves an empty term there
RECURSIVE SplitFrom(_, _, _)
SplitFrom(text, i, term) ==
    IF i > Len(text) THEN <<term>>
    ELSE IF IsSpace(text[i])
         THEN <<term>> \o SplitFrom(text, SkipSpace(text, i), <<>>)
         ELSE SplitFrom(text, i + 1, Append(term, text[i]))

SplitSpace(text) == SplitFrom(text, 1, <<>>)

\* the term stands in the text at offset i (offsets count from 0)
StandsAt(text, term, i) ==
    /\ i + Len(term) <= Len(text)
    /\ \A k \in 1..Len(term) : text[i + k] = term[k]

\* text.includes(term)
Includes(text, term) == \E i \in 0..Len(text) : StandsAt(text, term, i)

\* text.indexOf(term)
IndexOf(text, term) ==
    IF Includes(text, term)
    THEN CHOOSE i \in 0..Len(text) :
            /\ StandsAt(text, term, i)
            /\ \A j \in 0..(i - 1) : ~StandsAt(text, term, j)
    ELSE -1

\* the pattern new RegExp(term) matches the text at offset i: '.' matches
\* every character but a line break, another character matches itself
RegExpMatchesAt(text, term, i) ==
    /\ i + Len(term) <= Len(text)
    /\ \A k \in 1..Len(term) :
          IF term[k] = "." THEN text[i + k] # "\n" ELSE text[i + k] = term[k]

\* (text.match(new RegExp(term, 'g')) || []).length: the matches are
\* taken from left to right, each search starting where the last match
\* ended, one character further after an empty match
RECURSIVE CountRegExpMatches(_, _, _)
CountRegExpMatches(text, term, i) ==
    IF i > Len(text) THEN 0
    ELSE IF RegExpMatchesAt(text, term, i)
         THEN 1 + CountRegExpMatches(text, term, i + Max(1, Len(term)))
         ELSE CountRegExpMatches(text, term, i + 1)

\* the score one term adds
TermScore(title, content, term) ==
    (IF Includes(title, term) THEN TitleWeight ELSE 0)
    + (IF Includes(content, term) THEN CountRegExpMatches(content, term, 0) ELSE 0)

RECURSIVE SumTermScores(_, _, _)
SumTermScores(title, content, queryTerms) ==
    IF queryTerms = <<>> THEN 0
    ELSE TermScore(title, content, Head(queryTerms))
         + SumTermScores(title, content, Tail(queryTerms))

getSearchScore(page, queryTerms) ==
    SumTermScores(ToLowerCase(Chars(page.title)), ToLowerCase(Chars(page.content)),
                  queryTerms)

\* the smallest indexOf of a term in the text, -1 when none occurs
RECURSIVE FirstIndex(_, _, _)
FirstIndex(lowerContent, queryTerms, firstIndex) ==
    IF queryTerms = <<>> THEN firstIndex
    ELSE LET index == IndexOf(lowerContent, Head(queryTerms))
         IN FirstIndex(lowerContent, Tail(queryTerms),
                       IF index # -1 /\ (firstIndex = -1 \/ index < firstIndex)
                       THEN index ELSE firstIndex)

\* content.substring(from, to) for 0 <= from
Substring(content, from, to) == SubSeq(content, from + 1, Min(to, Len(content)))

\* getContentSnippet with the window starting SnippetBefore + 1 characters
\* before the match
SnippetOffByOne(content, queryTerms) ==
    LET firstIndex == FirstIndex(ToLowerCase(content), queryTerms, -1) IN
    IF firstIndex = -1
    THEN Substring(content, 0, SnippetAfter) \o Ellipsis
    ELSE LET start == Max(0, firstIndex - SnippetBefore - 1)
             end   == Min(Len(content), firstIndex + SnippetAfter)
         IN (IF start > 0 THEN Ellipsis ELSE <<>>)
            \o Substring(content, start, end)
            \o (IF end < Len(content) THEN Ellipsis ELSE <<>>)

Snippet(content, queryTerms) ==
    LET firstIndex == FirstIndex(ToLowerCase(content), queryTerms, -1) IN
    IF firstIndex = -1
    THEN Substring(content, 0, SnippetAfter) \o Ellipsis
    ELSE LET start == Max(0, firstIndex - SnippetBefore)
             end   == Min(Len(content), firstIndex + SnippetAfter)
         IN (IF start > 0 THEN Ellipsis ELSE <<>>)
            \o Substring(content, start, end)
            \o (IF end < Len(content) THEN Ellipsis ELSE <<>>)

\* getContentSnippet on the runs of a body, with the window of SnippetOffByOne
getContentSnippetOffByOne(content, queryTerms) ==
    Runs(SnippetOffByOne(Chars(content), queryTerms))

\* getContentSnippet on the runs of a body
getContentSnippet(content, queryTerms) == Runs(Snippet(Chars(content), queryTerms))

\* the pages of an index in the order the search visits them: section by
\* section, the direct pages, then the pages of each subsection
RECURSIVE SetToSeq(_)
SetToSeq(S) ==
    IF S = {} THEN <<>>
    ELSE LET x == CHOOSE y \in S : TRUE IN <<x>> \o SetToSeq(S \ {x})

RECURSIVE Flatten(_)
Flatten(lists) ==
    IF lists = <<>> THEN <<>> ELSE Head(lists) \o Flatten(Tail(lists))

SectionPages(section) ==
    LET subs == SetToSeq(DOMAIN section.subsections)
    IN section.pages \o Flatten([i \in 1..Len(subs) |-> section.subsections[subs[i]]])

AllPages(index) ==
    LET keys == SetToSeq(DOMAIN index.sections)
    IN Flatten([i \in 1..Len(keys) |-> SectionPages(index.sections[keys[i]])])

\* the results of the pages that score more than 0
RECURSIVE SearchPages(_, _)
SearchPages(pages, queryTerms) ==
    IF pages = <<>> THEN <<>>
    ELSE LET page  == Head(pages)
             score == getSearchScore(page, queryTerms)
         IN (IF score > 0
             THEN <<[title   |-> page.title,
                     url     |-> page.url,
                     snippet |-> getContentSnippet(page.content, queryTerms),
                     score   |-> score]>>
             ELSE <<>>)
            \o SearchPages(Tail(pages), queryTerms)

\* results.sort((a, b) => b.score - a.score), a stable sort
RECURSIVE InsertByScore(_, _)
InsertByScore(sorted, result) ==
    IF sorted = <<>> THEN <<result>>
    ELSE IF result.score > Head(sorted).score
         THEN <<result>> \o sorted
         ELSE <<Head(sorted)>> \o InsertByScore(Tail(sorted), result)

RECURSIVE SortByScore(_)
SortByScore(results) ==
    IF results = <<>> THEN <<>>
    ELSE InsertByScore(SortByScore(SubSeq(results, 1, Len(results) - 1)),
                       results[Len(results)])

\* the report: "No results found" or the list of the results
searchInDocIndex(index, query) ==
    LET queryTerms == SplitSpace(ToLowerCase(query))
        results    == SortByScore(SearchPages(AllPages(index), queryTerms))
    IN IF Len(results) = 0
       THEN [kind |-> "No results found", query |-> query, results |-> <<>>]
       ELSE [kind |-> "Search Results", query |-> query, results |-> results]

\* the characters of the titles and bodies that the remote documents of
\* the model yield
TextOf(string) ==
    CASE string = "Alpha"        -> <<"A", "l", "p", "h", "a">>
      [] string = "Beta"         -> <<"B", "e", "t", "a">>
      [] string = "# Alpha\none" -> <<"#", " ", "A", "l", "p", "h", "a", "\n", "o", "n", "e">>
      [] string = "# Beta\ntwo"  -> <<"#", " ", "B", "e", "t", "a", "\n", "t", "w", "o">>

\* the index with the title and the body of every page as runs
AsText(index) ==
    LET PageText(page) == [page EXCEPT !.title = Runs(TextOf(@)),
                                       !.content = Runs(TextOf(@))]
        PagesText(pages) == [i \in 1..Len(pages) |-> PageText(pages[i])]
    IN [index EXCEPT !.sections =
          [S \in DOMAIN index.sections |->
              [index.sections[S] EXCEPT
                  !.pages = PagesText(@),
                  !.subsections = [u \in DOMAIN @ |-> PagesText(@[u])]]]]

\* searchDocumentation that syncs before every search
searchDocumentationAlwaysSync(d, query, version, env, t) ==
    LET got  == getDocIndex(d, version, t)
        done == fetchDocStructure(got.disk, version, env, t)
    IN [disk |-> done.disk,
        report |-> searchInDocIndex(AsText(done.index), query),
        trace |-> <<Call("getDocIndex", version), Call("fetchDocStructure", version)>>]

\* the index is loaded, synced in full when it has no section, and searched
searchDocumentation(d, query, version, env, t) ==
    LET got == getDocIndex(d, version, t) IN
    IF DOMAIN got.index.sections = {}
    THEN LET done == fetchDocStructure(got.disk, version, env, t)
         IN [disk |-> done.disk,
             report |-> searchInDocIndex(AsText(done.index), query),
             trace |-> <<Call("getDocIndex", version),
                         Call("fetchDocStructure", version)>>]
    ELSE [disk |-> got.disk,
          report |-> searchInDocIndex(AsText(got.index), query),
          trace |-> <<Call("getDocIndex", version)>>]

----------------------------------------------------------------------------
(* The state machine *)

\* the file names a commit may list
FeedPaths == {PathA, PathT, PathX, PathP}

\* the paths a single-file upsert is called with
UpsertPaths == FeedPaths \cup {PathS}

\* the sequences over S of length at most n
RECURSIVE SeqsUpTo(_, _)
SeqsUpTo(S, n) ==
    IF n = 0 THEN {<<>>}
    ELSE LET shorter == SeqsUpTo(S, n - 1)
         IN shorter \cup {Append(q, x) : q \in shorter, x \in S}

RECURSIVE SeqToSet(_)
SeqToSet(q) == IF q = <<>> THEN {} ELSE {Head(q)} \cup SeqToSet(Tail(q))

FeedAnswers ==
    {Failed} \cup {[ok |-> TRUE, files |-> f] : f \in SeqsUpTo(FeedPaths, MaxFeed)}

\* at most one directory and one file fail during a call
ListFails == {{}, {DocsPath("forms")}}
FetchFails(paths) == {{}} \cup {{p} : p \in paths \cap DocPaths}

Env(tree, listFail, fetchFail, branches, feed) ==
    [tree |-> tree, listFail |-> listFail, fetchFail |-> fetchFail,
     branches |-> branches, feed |-> feed]

\* the versions and sections the calls are made with
CallVersions == {"3.x"}
CallSections == {"Forms", "Panels", "Bogus", "constructor"}
UpdateSections == {"Forms", "Bogus", "constructor"}

\* the clock advances by the staleness threshold or by one day more
TickSteps == {StaleDays, StaleDays + 1}

\* the documents a commit may give a file
Editions(p) ==
    IF p = PathA THEN RawDocs
    ELSE IF p = PathT THEN {"# Alpha\n[one](u)"}
    ELSE {"# Beta\ntwo"}

\* the buckets of an index file: the page lists of its sections and
\* subsections
Buckets(index) ==
    IF IsAbsent(index) THEN {}
    ELSE {index.sections[s].pages : s \in DOMAIN index.sections}
         \cup UNION {{index.sections[s].subsections[u] :
                         u \in DOMAIN index.sections[s].subsections} :
                     s \in DOMAIN index.sections}

WithinBounds(d) ==
    \A v \in Versions : \A b \in Buckets(d[v]) : Len(b) <= MaxBucket

\* the page a single-file upsert of the path obtains, Null when the path
\* is rejected or yields no page
UpsertPage(filePath, version, env) ==
    IF Len(filePath) < 3 \/ SectionOfPackage(filePath[2]) = "" THEN Null
    ELSE processMarkdownFile(filePath, version, SectionOfPackage(filePath[2]),
                             IF IsSubsection(filePath)
                             THEN FormatSubsectionName(filePath[4])
                             ELSE NoSubsection,
                             env)

HasCall(trace, fn) == \E i \in 1..Len(trace) : trace[i].fn = fn

NoCall ==
    [op |-> "none", version |-> NoVersion, section |-> NoSection, force |-> FALSE,
     path |-> <<>>, ret |-> FALSE, report |-> Report("none", FALSE, 0, 0),
     trace |-> <<>>, produced |-> {}, repeat |-> FALSE,
     seen |-> [age |-> 0, empty |-> TRUE, hasSection |-> FALSE],
     feed |-> <<>>, clean |-> TRUE,
     query |-> <<>>, terms |-> <<>>, page |-> Null, body |-> <<>>,
     answer |-> <<>>,
     requested |-> NoVersion, checkVersions |-> FALSE, available |-> {},
     request |-> "", arguments |-> [type |-> "undefined"], writable |-> TRUE,
     response |-> Null, uncaught |-> FALSE,
     listFail |-> {}, fetchFail |-> {}, started |-> 0, fetched |-> 0,
     persisted |-> FALSE,
     readable |-> TRUE, thrown |-> FALSE, index |-> Null,
     commits |-> [ok |-> FALSE],
     synced |-> [full |-> {}, section |-> {}]]

\* what a call finds in the index file of the version: the age of the
\* index, whether it has no section, whether it has the section asked for
Seen(d, version, section, t) ==
    IF IsAbsent(d[version])
    THEN [age |-> 0, empty |-> TRUE, hasSection |-> FALSE]
    ELSE [age |-> t - d[version].lastUpdated,
          empty |-> DOMAIN d[version].sections = {},
          hasSection |-> section \in DOMAIN d[version].sections]

\* what prev keeps of a call
Made(call) ==
    [op |-> call.op, version |-> call.version, path |-> call.path,
     produced |-> call.op = "processModifiedFile" /\ call.produced # {}]

Init ==
    /\ disk = [v \in Versions |-> Absent]
    /\ remote = [ref \in Versions |->
                    [p \in DocPaths |->
                        IF ref = DEFAULT_BRANCH /\ p # PathB THEN "# Alpha\n[one](u)"
                        ELSE "# Beta\ntwo"]]
    /\ now = 0
    /\ last = NoCall
    /\ prev = Made(NoCall)

\* time passes
Tick ==
    /\ \E step \in TickSteps :
          /\ now + step <= MaxNow
          /\ now' = now + step
    /\ last' = NoCall
    /\ UNCHANGED <<disk, remote, prev>>

\* a commit changes a file of the default branch
RemoteEdit ==
    /\ \E p \in DocPaths : \E raw \in Editions(p) :
          /\ remote[DEFAULT_BRANCH][p] # raw
          /\ remote' = [remote EXCEPT ![DEFAULT_BRANCH][p] = raw]
    /\ last' = NoCall
    /\ UNCHANGED <<disk, now, prev>>

\* scrapeDocumentation: a full sync
FetchDocStructure ==
    /\ \E version \in CallVersions, listFail \in ListFails,
           fetchFail \in FetchFails({PathA, PathB}) :
          \E done \in {fetchDocStructure(disk, version,
                           Env(remote, listFail, fetchFail, Failed, Failed), now)} :
             /\ WithinBounds(done.disk)
             /\ disk' = done.disk
             /\ last' = [NoCall EXCEPT !.op = "fetchDocStructure", !.version = version,
                                        !.trace = <<Call("fetchDocStructure", version)>>,
                                        !.clean = listFail = {} /\ fetchFail = {},
                                        !.repeat = /\ prev.op = "fetchDocStructure"
                                                   /\ prev.version = version]
    /\ prev' = Made(last')
    /\ UNCHANGED <<remote, now>>

\* a single-section sync; the requests that may fail are those it makes
FetchSectionDocStructure ==
    /\ \E version \in CallVersions, section \in CallSections :
       \E listFail \in {fails \in ListFails :
                           fails \subseteq {DocsPath(sectionPackagesOrNone(section))}} :
       \E fetchFail \in {fails \in FetchFails({PathA, PathB}) :
                            \/ fails = {}
                            \/ /\ listFail = {}
                               /\ \A p \in fails :
                                     p[2] = Seg(sectionPackagesOrNone(section))} :
          \E done \in {fetchSectionDocStructure(disk, version, section,
                           Env(remote, listFail, fetchFail, Failed, Failed), now)} :
             /\ WithinBounds(done.disk)
             /\ disk' = done.disk
             /\ last' = [NoCall EXCEPT !.op = "fetchSectionDocStructure",
                                        !.version = version, !.section = section,
                                        !.clean = listFail = {} /\ fetchFail = {},
                                        !.trace = <<Call("fetchSectionDocStructure", version)>>]
    /\ prev' = Made(last')
    /\ UNCHANGED <<remote, now>>

\* a single-file upsert
ProcessModifiedFile ==
    /\ \E version \in CallVersions, filePath \in UpsertPaths :
       \E fetchFail \in FetchFails({filePath}) :
          \E env \in {Env(remote, {}, fetchFail, Failed, Failed)} :
          \E done \in {processModifiedFile(disk, filePath, version, env, now)},
             page \in {UpsertPage(filePath, version, env)} :
             /\ WithinBounds(done.disk)
             /\ disk' = done.disk
             /\ last' = [NoCall EXCEPT
                            !.op = "processModifiedFile", !.version = version,
                            !.path = filePath, !.ret = done.ret,
                            !.clean = fetchFail = {},
                            !.trace = <<CallOn("processModifiedFile", version, filePath)>>,
                            !.produced = IF IsNull(page) THEN {} ELSE {page},
                            !.repeat = /\ prev.op = "processModifiedFile"
                                       /\ prev.version = version
                                       /\ prev.path = filePath
                                       /\ prev.produced]
    /\ prev' = Made(last')
    /\ UNCHANGED <<remote, now>>

\* the answers of the branch query
BranchAnswers == {Failed, [ok |-> TRUE, names |-> {"3.x", "main"}],
                  [ok |-> TRUE, names |-> {"3.x", "2.x", "main"}]}

\* A call of updateDocumentation.  The outside world answers only what the
\* call asks: the call is first run against a world where everything
\* fails, to see whether it lists directories and whether it reads the
\* change feed.  The version the call works on is the one its last call
\* was made with.
Update(version, force, section, checkVersions, branches, listFails) ==
    \E probe \in {updateDocumentation(disk, version, force, section, checkVersions,
                                      Env(remote, {}, {}, branches, Failed), now)} :
    \E syncs \in {HasCall(probe.trace, "fetchDocStructure")
                  \/ HasCall(probe.trace, "fetchSectionDocStructure")},
       reads \in {HasCall(probe.trace, "checkModifiedFiles")} :
    \E listFail \in IF syncs THEN listFails ELSE {{}},
       feed \in IF reads THEN FeedAnswers ELSE {Failed} :
    \E fetchFail \in IF syncs /\ listFails # {{}} THEN FetchFails({PathA, PathB})
                      ELSE IF feed.ok /\ listFails # {{}}
                      THEN FetchFails(SeqToSet(feed.files))
                      ELSE {{}} :
       \E env \in {Env(remote, listFail, fetchFail, branches, feed)} :
       \E done \in {updateDocumentation(disk, version, force, section,
                                        checkVersions, env, now)} :
       \E targetVersion \in {done.trace[Len(done.trace)].version} :
       \E files \in {IF section = NoSection
                     THEN checkModifiedFiles(targetVersion, 0, env)
                     ELSE SectionFiles(checkModifiedFiles(targetVersion, 0, env), section)} :
          /\ WithinBounds(done.disk)
          /\ disk' = done.disk
          /\ last' = [NoCall EXCEPT
                         !.op = "updateDocumentation", !.version = targetVersion,
                         !.section = section, !.force = force,
                         !.report = done.report, !.trace = done.trace,
                         !.seen = Seen(disk, targetVersion, section, now),
                         !.feed = IF feed.ok THEN feed.files ELSE <<>>,
                         !.clean = listFail = {} /\ fetchFail = {},
                         !.requested = version, !.checkVersions = checkVersions,
                         !.available = IF checkVersions
                                       THEN checkAvailableVersions(env) ELSE {},
                         !.produced =
                             IF HasCall(done.trace, "processModifiedFile")
                             THEN {UpsertPage(files[i], targetVersion, env) :
                                     i \in 1..Len(files)} \ {Null}
                             ELSE {}]
          /\ prev' = Made(last')
          /\ UNCHANGED <<remote, now>>

\* the update_docs tool, the versions not checked
UpdateDocumentation ==
    \E version \in CallVersions, force \in BOOLEAN,
       section \in UpdateSections \cup {NoSection} :
       Update(version, force, section, FALSE, Failed, ListFails)

\* the update_docs tool with checkVersions set, every directory listed and
\* every file fetched
UpdateDocumentationChecked ==
    \E version \in Versions \cup {NoVersion}, force \in BOOLEAN,
       section \in {"Forms", NoSection}, branches \in BranchAnswers :
       Update(version, force, section, TRUE, branches, {{}})

\* the queries of the search_docs tool
ToolQueries == {<<"B">>, <<"o", " ">>}

\* the search_docs tool
SearchDocumentation ==
    /\ \E version \in CallVersions, query \in ToolQueries :
       \E listFail \in IF Seen(disk, version, NoSection, now).empty
                        THEN ListFails ELSE {{}} :
       \E env \in {Env(remote, listFail, {}, Failed, Failed)} :
       \E done \in {searchDocumentation(disk, query, version, env, now)} :
          /\ WithinBounds(done.disk)
          /\ disk' = done.disk
          /\ last' = [NoCall EXCEPT !.op = "searchDocumentation", !.version = version,
                                    !.query = query, !.answer = done.report,
                                    !.trace = done.trace,
                                    !.seen = Seen(disk, version, NoSection, now),
                                    !.clean = listFail = {}]
    /\ prev' = Made(last')
    /\ UNCHANGED <<remote, now>>

\* the operations of the sync engine, called one after the other
Next ==
    \/ Tick
    \/ RemoteEdit
    \/ FetchDocStructure
    \/ FetchSectionDocStructure
    \/ ProcessModifiedFile
    \/ SearchDocumentation

Spec == Init /\ [][Next]_vars

\* the update_docs tool, called again and again
NextUpdate ==
    \/ Tick
    \/ RemoteEdit
    \/ UpdateDocumentation

SpecUpdate == Init /\ [][NextUpdate]_vars

\* no listing fails, or the listing of every package fails
AllListFails == {{}, {DocsPath(packageName) : packageName \in PackageNames}}

\* the update_docs tool of a server whose listings fail all at once
UpdateDocumentationOffline ==
    \E version \in CallVersions, force \in BOOLEAN,
       section \in {"Forms", NoSection} :
       Update(version, force, section, FALSE, Failed, AllListFails)

\* the update_docs and the search_docs tool, called one after the other
NextPolicy ==
    \/ Tick
    \/ RemoteEdit
    \/ UpdateDocumentationOffline
    \/ SearchDocumentation

SpecPolicy == Init /\ [][NextPolicy]_vars

\* the days that pass between two calls
ElapseSteps == {1, StaleDays}

\* time passes; the record of the last call is kept
Elapse ==
    /\ \E step \in ElapseSteps :
          /\ now + step <= MaxNow
          /\ now' = now + step
    /\ UNCHANGED <<disk, remote, last, prev>>

\* the update_docs tool with every directory listed and every file
\* fetched; the record of the call keeps the time of the latest full sync
\* and of the latest sync of a known section
UpdateDocumentationDated ==
    /\ \E version \in CallVersions, force \in BOOLEAN,
          section \in {"Forms", NoSection}, feed \in FeedAnswers :
       \E done \in {updateDocumentation(disk, version, force, section, FALSE,
                                        Env(remote, {}, {}, Failed, feed), now)} :
          /\ WithinBounds(done.disk)
          /\ disk' = done.disk
          /\ last' = [NoCall EXCEPT
                         !.op = "updateDocumentation", !.version = version,
                         !.section = section, !.force = force,
                         !.report = done.report, !.trace = done.trace,
                         !.seen = Seen(disk, version, section, now),
                         !.synced =
                             [full |-> IF HasCall(done.trace, "fetchDocStructure")
                                       THEN {now} ELSE last.synced.full,
                              section |-> IF HasCall(done.trace, "fetchSectionDocStructure")
                                          THEN {now} ELSE last.synced.section]]
    /\ prev' = Made(last')
    /\ UNCHANGED <<remote, now>>

\* update_docs calls with days between them
NextStale ==
    \/ Elapse
    \/ UpdateDocumentationDated

SpecStale == Init /\ [][NextStale]_vars

\* the update_docs tool with the versions checked
NextVersions ==
    \/ Tick
    \/ UpdateDocumentationChecked

SpecVersions == Init /\ [][NextVersions]_vars

\* the queries searched for
QueryChars == {"a", "B", ".", " "}
Queries == SeqsUpTo(QueryChars, MaxQuery)

\* the titles and bodies of the pages searched: the short bodies, and
\* bodies with one 'a' at each distance from the ends that the window of
\* the snippet tells apart
BodyChars == {"a", "B", "."}
Pad(n) == [i \in 1..n |-> "x"]
LongBodies ==
    {Runs(Pad(k) \o <<"a">> \o Pad(m)) :
        k \in {SnippetBefore - 1, SnippetBefore, SnippetBefore + 1},
        m \in {SnippetAfter - 2, SnippetAfter - 1, SnippetAfter}}
ShortBodies == {Runs(body) : body \in SeqsUpTo(BodyChars, MaxBody) \ {<<>>}}
SearchBodies == ShortBodies \cup LongBodies
SearchTitles == {Runs(<<"B">>), Runs(<<"a", "x">>)}

SearchPage(title, content, path, subsection) ==
    [title      |-> title,
     url        |-> [ref |-> DEFAULT_VERSION, path |-> path],
     content    |-> content,
     rawContent |-> content,
     version    |-> DEFAULT_VERSION,
     section    |-> "Forms",
     subsection |-> subsection,
     path       |-> path]

\* an index with a page of Forms and a page of its subsection Fields
SearchIndex(page, other) ==
    [version |-> DEFAULT_VERSION, lastUpdated |-> 0,
     sections |-> ("Forms" :>
        [title |-> "Forms", pages |-> <<page>>,
         subsections |-> (<<"Fields">> :> <<other>>)])]

SubsectionPage(content) ==
    SearchPage(Runs(<<"x">>), content,
               DocsPath("forms") \o <<<<"fields">>, Md("01", "a")>>, <<"Fields">>)

\* the search engine alone: a query and either an index file with two
\* pages to search or a body to take the snippet of
InitSearch ==
    /\ remote = [ref \in Versions |-> [p \in DocPaths |-> "# Beta\ntwo"]]
    /\ now = 0
    /\ prev = Made(NoCall)
    /\ \E query \in Queries :
          \/ \E title \in SearchTitles, content \in ShortBodies,
                content2 \in {Runs(<<"B">>), Runs(<<".", "a">>)} :
                /\ disk = [v \in Versions |->
                             IF v = DEFAULT_VERSION
                             THEN SearchIndex(
                                     SearchPage(title, content, PathA, NoSubsection),
                                     SubsectionPage(content2))
                             ELSE Absent]
                /\ last = [NoCall EXCEPT !.op = "query", !.version = DEFAULT_VERSION,
                                         !.query = query]
          \/ \E content \in SearchBodies :
                /\ disk = [v \in Versions |-> Absent]
                /\ last = [NoCall EXCEPT !.op = "body", !.version = DEFAULT_VERSION,
                                         !.query = query, !.body = content]

\* the search of the index for the query
SearchInDocIndex ==
    /\ last.op = "query"
    /\ last' = [last EXCEPT !.op = "searchInDocIndex",
                            !.terms = SplitSpace(ToLowerCase(last.query)),
                            !.answer = searchInDocIndex(disk[last.version], last.query)]
    /\ UNCHANGED <<disk, remote, now, prev>>

\* the score of one page for the terms of the query
GetSearchScore ==
    /\ last.op = "query"
    /\ \E page \in SeqToSet(AllPages(disk[last.version])) :
       \E queryTerms \in {SplitSpace(ToLowerCase(last.query))} :
          last' = [last EXCEPT !.op = "getSearchScore", !.page = page,
                               !.terms = queryTerms,
                               !.answer = getSearchScore(page, queryTerms)]
    /\ UNCHANGED <<disk, remote, now, prev>>

\* the snippet of a body for the terms of the query
GetContentSnippet ==
    /\ last.op = "body"
    /\ \E queryTerms \in {SplitSpace(ToLowerCase(last.query))} :
          last' = [last EXCEPT !.op = "getContentSnippet",
                               !.terms = queryTerms,
                               !.answer = getContentSnippet(last.body, queryTerms)]
    /\ UNCHANGED <<disk, remote, now, prev>>

NextSearch ==
    \/ SearchInDocIndex
    \/ GetSearchScore
    \/ GetContentSnippet

SpecSearch == InitSearch /\ [][NextSearch]_vars

----------------------------------------------------------------------------
(* The request handler of the tools.  An argument is a JavaScript value:   *)
(* undefined, a string, a boolean or a number; the arguments of a request  *)
(* are undefined or an object of such values.                              *)

Undefined == [type |-> "undefined"]
Str(s)    == [type |-> "string", value |-> s]
Bool(b)   == [type |-> "boolean", value |-> b]
Num(n)    == [type |-> "number", number |-> n]

\* what a piece of code ends in: a value returned or an error thrown
Return(d, value) == [disk |-> d, thrown |-> FALSE, value |-> value]
Throw(d, message) == [disk |-> d, thrown |-> TRUE, message |-> message]

\* z.string() and z.type().optional()
IsOfType(value, type) == value.type = type
IsOptional(value, type) == value.type = "undefined" \/ value.type = type

\* searchDocsSchema.parse and updateDocsSchema.parse succeed
searchDocsSchema(arguments) ==
    /\ arguments.type = "object"
    /\ IsOfType(arguments.query, "string")

updateDocsSchema(arguments) ==
    /\ arguments.type = "object"
    /\ IsOptional(arguments.version, "string")
    /\ IsOptional(arguments.force, "boolean")
    /\ IsOptional(arguments.section, "string")
    /\ IsOptional(arguments.check_versions, "boolean")

\* an optional argument, or what stands for it when it is not given
OrElse(value, default) == IF value.type = "undefined" THEN default ELSE value.value

\* formatDocStructure: the titles and links of the pages, listed by
\* section and subsection
formatDocStructure(index) ==
    LET Links(pages) == [i \in 1..Len(pages) |->
                            [title |-> pages[i].title, url |-> pages[i].url]]
    IN [kind |-> "Filament Documentation", version |-> index.version,
        lastUpdated |-> index.lastUpdated,
        sections |-> [s \in DOMAIN index.sections |->
                        [title |-> index.sections[s].title,
                         pages |-> Links(index.sections[s].pages),
                         subsections |->
                            [u \in DOMAIN index.sections[s].subsections |->
                                Links(index.sections[s].subsections[u])]]]]

scrapeDocumentation(d, version, env, t) ==
    CHOOSE out \in {[disk |-> done.disk, report |-> formatDocStructure(done.index)] :
                       done \in {fetchDocStructure(d, version, env, t)}} : TRUE

\* the sum of f over the set S
RECURSIVE SumOver(_, _)
SumOver(S, f) ==
    IF S = {} THEN 0
    ELSE LET x == CHOOSE y \in S : TRUE IN f[x] + SumOver(S \ {x}, f)

getDocumentationInfo(d, version, t) ==
    LET got == getDocIndex(d, version, t)
        sections == got.index.sections
        subsectionCount == [s \in DOMAIN sections |->
                               Cardinality(DOMAIN sections[s].subsections)]
        pageCount == [s \in DOMAIN sections |->
                        Len(sections[s].pages)
                        + SumOver(DOMAIN sections[s].subsections,
                                  [u \in DOMAIN sections[s].subsections |->
                                      Len(sections[s].subsections[u])])]
    IN [disk |-> got.disk,
        report |-> [kind |-> "Filament Documentation Information",
                    version |-> got.index.version,
                    lastUpdated |-> got.index.lastUpdated,
                    sections |-> Cardinality(DOMAIN sections),
                    subsections |-> SumOver(DOMAIN sections, subsectionCount),
                    pages |-> SumOver(DOMAIN sections, pageCount)]]

\* the version updateDocumentation works on
TargetVersion(version, checkVersions, env) ==
    IF version = NoVersion
       \/ (checkVersions /\ version \notin checkAvailableVersions(env))
    THEN DEFAULT_VERSION ELSE version

\* A facade operation on a storage that may refuse to write.  Each of the
\* four loads the index first, and getDocIndex writes the file of a new
\* index outside any try block: the operation throws there when there is
\* no index file and the storage refuses the write.
OnStorage(d, version, writable, done) ==
    IF ~writable /\ IsAbsent(d[version])
    THEN Throw(d, "EACCES: permission denied")
    ELSE CHOOSE out \in {Return(r.disk, [isError |-> FALSE, text |-> r.report]) :
                            r \in {done}} : TRUE

\* getDocIndex on a storage whose read and whose write may fail: the index
\* parsed from the file when it is there and can be read; else a new empty
\* index, written to the file outside any try block, so that a write the
\* storage refuses throws out of getDocIndex
getDocIndexOnStorage(d, version, t, readable, writable) ==
    IF readable /\ ~IsAbsent(d[version])
    THEN Return(d, d[version])
    ELSE LET newIndex == [version |-> version, lastUpdated |-> t, sections |-> <<>>]
         IN IF writable
            THEN Return([d EXCEPT ![version] = newIndex], newIndex)
            ELSE Throw(d, "EACCES: permission denied")

\* the switch inside the try block of the handler
CallToolSwitch(d, name, arguments, env, t, writable) ==
    CASE name = "list_docs" ->
           OnStorage(d, DEFAULT_VERSION, writable,
                     scrapeDocumentation(d, DEFAULT_VERSION, env, t))
      [] name = "search_docs" ->
           IF ~searchDocsSchema(arguments) THEN Throw(d, "ZodError")
           ELSE OnStorage(d, DEFAULT_VERSION, writable,
                          searchDocumentation(d, arguments.query.value,
                                              DEFAULT_VERSION, env, t))
      [] name = "docs_info" ->
           OnStorage(d, DEFAULT_VERSION, writable,
                     getDocumentationInfo(d, DEFAULT_VERSION, t))
      [] name = "update_docs" ->
           IF ~updateDocsSchema(arguments) THEN Throw(d, "ZodError")
           ELSE LET version == OrElse(arguments.version, NoVersion)
                    force == OrElse(arguments.force, FALSE)
                    section == OrElse(arguments.section, NoSection)
                    checkVersions == OrElse(arguments.check_versions, FALSE)
                IN OnStorage(d, TargetVersion(version, checkVersions, env), writable,
                             updateDocumentation(d, version, force, section,
                                                 checkVersions, env, t))
      [] OTHER ->
           Return(d, [isError |-> TRUE, text |-> <<"Unknown tool: ", name>>])

\* the handler without its catch block
CallToolHandlerNoCatch(body) ==
    IF body.thrown
    THEN [disk |-> body.disk, response |-> Null, uncaught |-> TRUE]
    ELSE [disk |-> body.disk, response |-> body.value, uncaught |-> FALSE]

\* the handler of CallToolRequestSchema, given what the switch of its try
\* block ended in: what the switch returns, or the error response made of
\* what it throws
CallToolHandler(body) ==
    IF body.thrown
    THEN [disk |-> body.disk,
          response |-> [isError |-> TRUE,
                        text |-> <<"Error executing tool: ", body.message>>],
          uncaught |-> FALSE]
    ELSE [disk |-> body.disk, response |-> body.value, uncaught |-> FALSE]

\* the tools, and a name that is none of them
ToolNames == {"list_docs", "search_docs", "docs_info", "update_docs"}
RequestNames == ToolNames \cup {"delete_docs"}

\* the arguments the requests come with
SearchArguments ==
    {Undefined} \cup {[type |-> "object", query |-> q] :
                        q \in {Undefined, Str(<<"B">>), Num(7)}}

UpdateArguments ==
    {Undefined} \cup
    {[type |-> "object", version |-> v, force |-> f, section |-> s,
      check_versions |-> c] :
        v \in {Undefined, Str("3.x"), Str("2.x")},
        f \in {Undefined, Bool(TRUE), Num(1)},
        s \in {Undefined, Str("Forms")},
        c \in {Undefined, Bool(TRUE)}}

RequestArguments(name) ==
    IF name = "search_docs" THEN SearchArguments
    ELSE IF name = "update_docs" THEN UpdateArguments
    ELSE {Undefined}

\* the arguments pass the schema of the tool
ValidArguments(name, arguments) ==
    /\ name = "search_docs" => searchDocsSchema(arguments)
    /\ name = "update_docs" => updateDocsSchema(arguments)

\* the version of the index a request of the tool loads
RequestVersion(name, arguments, env) ==
    IF name = "update_docs"
    THEN TargetVersion(OrElse(arguments.version, NoVersion),
                       OrElse(arguments.check_versions, FALSE), env)
    ELSE DEFAULT_VERSION

\* a tool request: every directory is listed and every file fetched; the
\* storage refuses to write in requests that have to create the index file
CallTool ==
    /\ \E name \in RequestNames, writable \in BOOLEAN :
       \E arguments \in RequestArguments(name) :
       \E env \in {Env(remote, {}, {}, Failed, Failed)} :
       \E body \in {CallToolSwitch(disk, name, arguments, env, now, writable)} :
       \E done \in {CallToolHandler(body)} :
          /\ writable \/ (/\ name \in ToolNames
                          /\ ValidArguments(name, arguments)
                          /\ IsAbsent(disk[RequestVersion(name, arguments, env)]))
          /\ WithinBounds(done.disk)
          /\ disk' = done.disk
          /\ last' = [NoCall EXCEPT !.op = "callTool", !.request = name,
                                    !.arguments = arguments,
                                    !.writable = writable,
                                    !.response = done.response,
                                    !.uncaught = done.uncaught]
    /\ prev' = Made(last')
    /\ UNCHANGED <<remote, now>>

\* a call of getDocIndex, the read and the write each failing or not
GetDocIndex ==
    /\ \E version \in Versions, readable \in BOOLEAN, writable \in BOOLEAN :
       \E done \in {getDocIndexOnStorage(disk, version, now, readable, writable)} :
          /\ disk' = done.disk
          /\ last' = [NoCall EXCEPT !.op = "getDocIndex", !.version = version,
                                    !.readable = readable, !.writable = writable,
                                    !.thrown = done.thrown,
                                    !.index = IF done.thrown THEN Null ELSE done.value]
    /\ prev' = Made(last')
    /\ UNCHANGED <<remote, now>>

NextTools ==
    \/ Tick
    \/ CallTool
    \/ GetDocIndex

SpecTools == Init /\ [][NextTools]_vars

----------------------------------------------------------------------------
(* The syncs with the time they take and the requests that fail in them    *)

\* the directories whose listing fails and the files whose fetch fails
\* during one sync
SyncListFails == {{}, {DocsPath("actions")}, {DocsPath("forms")}}
SyncFetchFails == {{}, {PathA}, {PathB}}

\* the time between the start of a sync and the end of its last request
SyncDurations == {0, 1}

\* a full sync: the clock is read at the start, the requests take time
FullSync ==
    /\ \E version \in CallVersions, listFail \in SyncListFails,
          fetchFail \in SyncFetchFails, elapsed \in SyncDurations :
       \E done \in {fetchDocStructure(disk, version,
                        Env(remote, listFail, fetchFail, Failed, Failed), now)} :
          /\ now + elapsed <= MaxNow
          /\ WithinBounds(done.disk)
          /\ disk' = done.disk
          /\ now' = now + elapsed
          /\ last' = [NoCall EXCEPT !.op = "fetchDocStructure", !.version = version,
                                    !.listFail = listFail, !.fetchFail = fetchFail,
                                    !.started = now, !.fetched = now + elapsed,
                                    !.persisted = done.disk[version] = Stringify(done.index),
                                    !.clean = listFail = {} /\ fetchFail = {}]
    /\ prev' = Made(last')
    /\ UNCHANGED remote

\* a single-section sync of a known section; the requests that fail are
\* requests it makes
SectionSync ==
    /\ \E version \in CallVersions, section \in {"Forms", "Panels"},
          listFail \in SyncListFails, fetchFail \in SyncFetchFails :
       \E done \in {fetchSectionDocStructure(disk, version, section,
                        Env(remote, listFail, fetchFail, Failed, Failed), now)} :
          /\ listFail \subseteq {DocsPath(sectionPackages[section])}
          /\ section = "Forms" \/ fetchFail = {}
          /\ WithinBounds(done.disk)
          /\ disk' = done.disk
          /\ last' = [NoCall EXCEPT !.op = "fetchSectionDocStructure",
                                    !.version = version, !.section = section,
                                    !.listFail = listFail, !.fetchFail = fetchFail,
                                    !.started = now, !.fetched = now,
                                    !.persisted = done.disk[version] = Stringify(done.index),
                                    !.clean = listFail = {} /\ fetchFail = {}]
    /\ prev' = Made(last')
    /\ UNCHANGED <<remote, now>>

NextSync ==
    \/ Tick
    \/ RemoteEdit
    \/ FullSync
    \/ SectionSync

SpecSync == Init /\ [][NextSync]_vars

----------------------------------------------------------------------------
(* Two operations on the index of one version, interleaved at their        *)
(* awaits.  Each loads the index with getDocIndex, waits for the content   *)
(* source, changes the index it loaded and saves it.  Here last holds the  *)
(* two operations: where each one is, the index it loaded, and the order   *)
(* of the saves.                                                           *)

Writers == {1, 2}

\* the operations that load, change and save the index
UpsertCall(filePath) ==
    [fn |-> "processModifiedFile", path |-> filePath, section |-> NoSection]
SectionSyncCall(section) ==
    [fn |-> "fetchSectionDocStructure", path |-> <<>>, section |-> section]
WriterCalls == {UpsertCall(p) : p \in DocPaths} \cup {SectionSyncCall("Forms")}

\* the operation run on the disk d
RunCall(call, d, version, env, t) ==
    IF call.fn = "processModifiedFile"
    THEN processModifiedFile(d, call.path, version, env, t).disk
    ELSE fetchSectionDocStructure(d, version, call.section, env, t).disk

\* an operation that reads the index file again when it resumes
ResumedOnDisk(d, index) == d

\* what an operation resumes on after its awaits: the index object it
\* loaded, whatever the file holds by now
ResumedOn(d, index) == [d EXCEPT ![index.version] = index]

Idle == [pc |-> "idle", call |-> UpsertCall(PathA), index |-> Null, stale |-> FALSE,
         wrote |-> Null]

NoRace == [op |-> "race", version |-> DEFAULT_VERSION,
           writer |-> [w \in Writers |-> Idle], order |-> <<>>]

InitRace ==
    /\ disk = [v \in Versions |-> Absent]
    /\ remote = [ref \in Versions |->
                    [p \in DocPaths |->
                        IF p = PathB THEN "# Beta\ntwo" ELSE "# Alpha\n[one](u)"]]
    /\ now = 0
    /\ last = NoRace
    /\ prev = Made(NoCall)

\* an operation starts: await getDocIndex(version)
LoadIndex ==
    /\ last.op = "race"
    /\ \E w \in Writers, call \in WriterCalls :
       \E got \in {getDocIndex(disk, last.version, now)} :
          /\ last.writer[w].pc = "idle"
          /\ disk' = got.disk
          /\ last' = [last EXCEPT !.writer[w] =
                         [Idle EXCEPT !.pc = "loaded", !.call = call,
                                      !.index = got.index]]
    /\ UNCHANGED <<remote, now, prev>>

\* the operation resumes, changes its index and saves it: await
\* saveDocIndex(index)
SaveIndex ==
    /\ last.op = "race"
    /\ \E w \in {v \in Writers : last.writer[v].pc = "loaded"} :
       \E saved \in {RunCall(last.writer[w].call,
                             ResumedOn(disk, last.writer[w].index), last.version,
                             Env(remote, {}, {}, Failed, Failed), now)} :
          /\ last.writer[w].pc = "loaded"
          /\ disk' = saved
          /\ last' = [last EXCEPT
                         !.order = Append(@, w),
                         !.writer = [v \in Writers |->
                            IF v = w
                            THEN [last.writer[v] EXCEPT !.pc = "saved",
                                                        !.wrote = saved[last.version]]
                            ELSE IF last.writer[v].pc = "loaded"
                            THEN [last.writer[v] EXCEPT !.stale = TRUE]
                            ELSE last.writer[v]]]
    /\ UNCHANGED <<remote, now, prev>>

\* both operations have returned; two others may start
BothReturn ==
    /\ last.op = "race"
    /\ \A w \in Writers : last.writer[w].pc = "saved"
    /\ last' = NoRace
    /\ UNCHANGED <<disk, remote, now, prev>>

NextRace ==
    \/ LoadIndex
    \/ SaveIndex
    \/ BothReturn

SpecRace == InitRace /\ [][NextRace]_vars

----------------------------------------------------------------------------
(* The change feed, request by request: the query of the commits since a   *)
(* date, then one query per commit for the files it changed.               *)

MaxCommits == 2      \* most commits the feed lists
MaxChanged == 2      \* most files a commit changes

PathR == DocsPath("forms") \o <<<<"README", ".txt">>>>

\* the file names the commits may carry
CommitPaths == {PathA, PathT, PathS, PathR}

\* the answers of the query of one commit: a failure, or the files changed
CommitAnswers ==
    {Failed} \cup {[ok |-> TRUE, files |-> f] : f \in SeqsUpTo(CommitPaths, MaxChanged)}

\* the answers of the feed: the query of the commits fails, or it lists
\* commits, each with the answer its own query gets
CommitsAnswers ==
    {Failed} \cup {[ok |-> TRUE, commits |-> c] : c \in SeqsUpTo(CommitAnswers, MaxCommits)}

RECURSIVE ChangedFiles(_)
ChangedFiles(commits) ==
    IF commits = <<>> THEN <<>>
    ELSE Head(commits).files \o ChangedFiles(Tail(commits))

\* the feed with the commits whose query fails passed over
FeedOfResolved(answer) ==
    IF ~answer.ok THEN Failed
    ELSE [ok |-> TRUE,
          files |-> ChangedFiles(SelectSeq(answer.commits, LAMBDA c : c.ok))]

\* what the try block of checkModifiedFiles gets from its requests: the
\* files of the commits in the order of the loop, or the failure of the
\* first request that fails, which ends the loop
FeedOf(answer) ==
    IF ~answer.ok \/ \E i \in 1..Len(answer.commits) : ~answer.commits[i].ok
    THEN Failed
    ELSE [ok |-> TRUE, files |-> ChangedFiles(answer.commits)]

\* a call of checkModifiedFiles is about to be made
InitFeed ==
    /\ disk = [v \in Versions |-> Absent]
    /\ remote = [ref \in Versions |-> [p \in DocPaths |-> "# Beta\ntwo"]]
    /\ now = 0
    /\ \E answer \in CommitsAnswers :
          last = [NoCall EXCEPT !.op = "feed", !.commits = answer]
    /\ prev = Made(NoCall)

CheckModifiedFiles ==
    /\ last.op = "feed"
    /\ \E version \in CallVersions :
          last' = [last EXCEPT
                      !.op = "checkModifiedFiles", !.version = version,
                      !.feed = checkModifiedFiles(version, now,
                                   Env(remote, {}, {}, Failed, FeedOf(last.commits)))]
    /\ UNCHANGED <<disk, remote, now, prev>>

NextFeed == CheckModifiedFiles

SpecFeed == InitFeed /\ [][NextFeed]_vars

----------------------------------------------------------------------------
(* The retrying fetchers, one step per request and per wait.  Here now is  *)
(* Date.now() in milliseconds and last is the running call: its loop       *)
(* counter, what each request met, the waits made and what the call ended  *)
(* in.                                                                     *)

Retries        == 3        \* retries = 3, the bound of the loop counter
RateLimitCap   == 60000    \* Wait at most 1 minute
BackoffUnit    == 1000     \* Math.pow(2, attempt) * 1000
MaxResetHeader == 90       \* latest x-ratelimit-reset of the responses, in seconds

\* the x-ratelimit-reset header of a rate-limited response: missing, or a
\* time in seconds
NoHeader == [given |-> FALSE]
Header(seconds) == [given |-> TRUE, seconds |-> seconds]
ResetHeaders == {NoHeader, Header(0), Header(MaxResetHeader - 60), Header(MaxResetHeader)}

\* what a request meets: a response with data, a 403 response with
\* x-ratelimit-remaining '0', or any other failure
Success == [kind |-> "ok"]
RateLimited(header) == [kind |-> "rate limit", reset |-> header]
OtherFailure == [kind |-> "failure"]
TransportOutcomes ==
    {Success, OtherFailure} \cup {RateLimited(h) : h \in ResetHeaders}

\* a JavaScript number that may be NaN
NaN == [nan |-> TRUE]
Number(n) == [nan |-> FALSE, ms |-> n]

\* Math.min(Math.max(parseInt(header) * 1000 - Date.now(), 0), 60000):
\* parseInt of a missing header is NaN, and so is all that is computed
\* from it
RateLimitWait(header, t) ==
    IF ~header.given THEN NaN
    ELSE Number(Min(Max(header.seconds * 1000 - t, 0), RateLimitCap))

\* Math.pow(2, attempt) * 1000
BackoffWait(attempt) == Number((2 ^ attempt) * BackoffUnit)

\* the delay of setTimeout: a delay that is not a number counts as 1
TimerDelay(waitTime) == IF waitTime.nan THEN 1 ELSE waitTime.ms

\* attempt < retries with one retry too many
BacksOffThroughLast(attempt) == attempt <= Retries

\* attempt < retries: the test of the backoff branch
BacksOff(attempt) == attempt < Retries

\* the wait the catch block makes after the failed attempt, none when the
\* last attempt fails otherwise than by the rate limit
WaitAfter(outcome, attempt, t) ==
    IF outcome.kind = "rate limit"
    THEN [waits |-> TRUE, kind |-> "rate limit",
          waitTime |-> RateLimitWait(outcome.reset, t)]
    ELSE IF BacksOff(attempt)
    THEN [waits |-> TRUE, kind |-> "backoff", waitTime |-> BackoffWait(attempt)]
    ELSE [waits |-> FALSE]

\* the error an attempt is caught with
ErrorOf(outcome, attempt) == [attempt |-> attempt, kind |-> outcome.kind]

\* a loop that lets a fourth attempt start
LoopEndsLate(attempt) == attempt > Retries + 1

\* attempt <= retries is false
LoopEnds(attempt) == attempt > Retries

\* every fetcher throwing once the attempts are used up
AfterLoopThrows(fn, lastError) == [kind |-> "threw", error |-> lastError]

\* after the loop: fetchGitHubContent throws lastError, listGitHubDirectory
\* returns []
AfterLoop(fn, lastError) ==
    IF fn = "fetchGitHubContent"
    THEN [kind |-> "threw", error |-> lastError]
    ELSE [kind |-> "returned", value |-> <<>>]

\* response.data
ResponseData(fn, path, tree) ==
    IF fn = "fetchGitHubContent" THEN tree[DEFAULT_BRANCH][path]
    ELSE RemoteListing(path)

Fetchers == {"fetchGitHubContent", "listGitHubDirectory"}
Running == [kind |-> "running"]

\* the times the calls are made at, in milliseconds
StartTimes == {0, BackoffUnit}

NoFetch ==
    [op |-> "none", pc |-> "request", attempt |-> 1, requests |-> 0,
     outcomes |-> <<>>, waits |-> <<>>, waitTime |-> Number(0),
     lastError |-> [attempt |-> 0, kind |-> "none"],
     result |-> Running, page |-> Running]

\* a call of one fetcher is about to make its first request
InitFetch ==
    /\ disk = [v \in Versions |-> Absent]
    /\ \E raw \in RawDocs :
          remote = [ref \in Versions |-> [p \in DocPaths |-> raw]]
    /\ now \in StartTimes
    /\ \E fn \in Fetchers : last = [NoFetch EXCEPT !.op = fn]
    /\ prev = Made(NoCall)

\* the path the call is made with
FetchedPath == IF last.op = "fetchGitHubContent" THEN PathA ELSE DocsPath("forms")

\* the loop counter goes up; the call ends when the loop does
NextAttempt(call) ==
    LET attempt == call.attempt + 1 IN
    IF LoopEnds(attempt)
    THEN [call EXCEPT !.attempt = attempt, !.pc = "done",
                      !.result = AfterLoop(call.op, call.lastError)]
    ELSE [call EXCEPT !.attempt = attempt, !.pc = "request"]

\* one turn of the loop up to its wait: axios.get answers or fails
Request ==
    /\ last.op \in Fetchers
    /\ last.pc = "request"
    /\ \E outcome \in TransportOutcomes :
       \E made \in {[last EXCEPT !.requests = @ + 1,
                                 !.outcomes = Append(@, outcome)]} :
          IF outcome.kind = "ok"
          THEN last' = [made EXCEPT
                           !.pc = "done",
                           !.result = [kind |-> "returned",
                                       value |-> ResponseData(last.op, FetchedPath,
                                                              remote)]]
          ELSE \E wait \in {WaitAfter(outcome, last.attempt, now)},
                  caught \in {[made EXCEPT
                                  !.lastError = ErrorOf(outcome, last.attempt)]} :
                  IF wait.waits
                  THEN last' = [caught EXCEPT
                                   !.pc = "sleep", !.waitTime = wait.waitTime,
                                   !.waits = Append(@, [after |-> last.attempt,
                                                        at |-> now,
                                                        kind |-> wait.kind,
                                                        waitTime |-> wait.waitTime])]
                  ELSE last' = NextAttempt(caught)
    /\ UNCHANGED <<disk, remote, now, prev>>

\* the timer of the wait fires
Sleep ==
    /\ last.op \in Fetchers
    /\ last.pc = "sleep"
    /\ now' = now + TimerDelay(last.waitTime)
    /\ last' = NextAttempt(last)
    /\ UNCHANGED <<disk, remote, prev>>

\* processMarkdownFile, once its call of fetchGitHubContent has ended
ProcessMarkdownFile ==
    /\ last.op = "fetchGitHubContent"
    /\ last.pc = "done"
    /\ \E env \in {Env(remote, {},
                       IF last.result.kind = "threw" THEN {FetchedPath} ELSE {},
                       Failed, Failed)} :
       \E page \in {processMarkdownFile(FetchedPath, DEFAULT_VERSION, "Forms",
                                        NoSubsection, env)} :
          last' = [last EXCEPT !.pc = "processed",
                               !.page = [kind |-> "returned", value |-> page]]
    /\ UNCHANGED <<disk, remote, now, prev>>

NextFetch ==
    \/ Request
    \/ Sleep
    \/ ProcessMarkdownFile

SpecFetch == InitFetch /\ [][NextFetch]_vars

\* a request that can be made is made, a timer that is set fires
SpecFetchFair == SpecFetch /\ WF_vars(Request) /\ WF_vars(Sleep)

----------------------------------------------------------------------------
(* Properties *)

\* the index file of the version the last call was made with
LastIndex == disk[last.version]

\* the page is in the bucket its section and subsection fields name
InBucket(index, page) ==
    /\ ~IsAbsent(index)
    /\ HasSection(index, page.section)
    /\ IF page.subsection = NoSubsection
       THEN page \in SeqToSet(index.sections[page.section].pages)
       ELSE /\ HasSubsection(index, page.section, page.subsection)
            /\ page \in SeqToSet(index.sections[page.section].subsections[page.subsection])

\* how many pages of the bucket come from the path
CountPath(pages, filePath) ==
    Cardinality({i \in 1..Len(pages) : pages[i].path = filePath})

IsUpdate == last.op = "updateDocumentation"

\* C1: after an update without section and without force, on an index that
\* has a section and is less than 7 days old, with a non-empty list of
\* modified paths, the index file holds every page the upserts produced,
\* each in its bucket.
C1_UpsertsArePersisted ==
    (/\ IsUpdate /\ last.section = NoSection /\ ~last.force
     /\ ~last.seen.empty /\ last.seen.age < StaleDays
     /\ HasCall(last.trace, "processModifiedFile"))
    => \A page \in last.produced : InBucket(LastIndex, page)

\* C2: a full sync that follows a full sync of the same version at once,
\* the remote tree unchanged and every request answered, leaves the
\* sections and their page lists as the first one left them.
C2_FullSyncIdempotent ==
    [][(/\ last.op = "fetchDocStructure" /\ last.clean
        /\ last'.op = "fetchDocStructure" /\ last'.clean
        /\ last'.version = last.version)
       => disk'[last.version].sections = disk[last.version].sections]_vars

\* C3: no bucket of an index file holds two pages of the same path.
C3_OnePagePerPath ==
    \A v \in Versions : \A b \in Buckets(disk[v]) :
        \A i, j \in 1..Len(b) : b[i].path = b[j].path => i = j

\* C4: after two single-file upserts of the same path in a row, each having
\* fetched a page, the bucket of the path holds exactly one page of that
\* path, and it is the page of the second upsert.
C4_SecondUpsertWins ==
    (/\ last.op = "processModifiedFile" /\ last.repeat /\ last.produced # {})
    => \A page \in last.produced :
          /\ InBucket(LastIndex, page)
          /\ \A b \in Buckets(LastIndex) :
                CountPath(b, last.path) =
                    (IF page \in SeqToSet(b) THEN 1 ELSE 0)

\* two producing upserts of PathA in a row, the bucket having held two
\* pages of it or the second page differing from the one of the first:
\* here the second has replaced a page of another content
C4_Witness ==
    /\ last.op = "processModifiedFile" /\ last.repeat /\ last.produced # {}
    /\ last.path = PathA
    /\ \E page \in last.produced : page.title = "Beta"

\* C5: without section and without force, a full sync is run exactly when
\* the loaded index has no section or is more than 7 days old; otherwise
\* the change feed is read and no full sync is run.
C5_FullSyncWhenEmptyOrStale ==
    (IsUpdate /\ last.section = NoSection /\ ~last.force)
    => /\ HasCall(last.trace, "fetchDocStructure")
            <=> (last.seen.empty \/ last.seen.age > StaleDays)
       /\ HasCall(last.trace, "checkModifiedFiles")
            <=> ~(last.seen.empty \/ last.seen.age > StaleDays)
       /\ ~HasCall(last.trace, "fetchSectionDocStructure")

\* an index with sections, exactly 7 days old: the incremental sync only
C5_Witness ==
    /\ IsUpdate /\ last.section = NoSection /\ ~last.force
    /\ ~last.seen.empty /\ last.seen.age = StaleDays
    /\ HasCall(last.trace, "checkModifiedFiles")

\* the files of the feed that belong to the section
FeedOfSection(feed, section) ==
    {i \in 1..Len(feed) :
        Len(feed[i]) >= 3 /\ feed[i][2] = Seg(sectionPackagesOrNone(section))}

\* C6: with a section, the single-section sync is run exactly when force
\* is set, the section is missing from the loaded index or the index is
\* more than 7 days old; otherwise no sync is run, the change feed is read,
\* only files of the section are upserted, and with no such file the
\* report says the section is up to date.
C6_SectionSyncWhenForcedMissingOrStale ==
    (IsUpdate /\ last.section # NoSection)
    => LET sync == last.force \/ ~last.seen.hasSection \/ last.seen.age > StaleDays
       IN /\ HasCall(last.trace, "fetchSectionDocStructure") <=> sync
          /\ ~HasCall(last.trace, "fetchDocStructure")
          /\ ~sync =>
               /\ HasCall(last.trace, "checkModifiedFiles")
               /\ \A i \in 1..Len(last.trace) :
                     last.trace[i].fn = "processModifiedFile"
                     => /\ Len(last.trace[i].path) >= 3
                        /\ SectionOfPackage(last.trace[i].path[2]) = last.section
               /\ FeedOfSection(last.feed, last.section) = {}
                     => last.report.kind = "section up to date"

\* C7: without section and with force, a full sync is run and the change
\* feed is not read, whatever the age and the sections of the index.
C7_ForceAlwaysFullSync ==
    (IsUpdate /\ last.section = NoSection /\ last.force)
    => /\ HasCall(last.trace, "fetchDocStructure")
       /\ ~HasCall(last.trace, "checkModifiedFiles")
       /\ ~HasCall(last.trace, "processModifiedFile")

\* a forced update of a fresh index that has sections
C7_Witness ==
    /\ IsUpdate /\ last.section = NoSection /\ last.force
    /\ ~last.seen.empty /\ last.seen.age <= StaleDays
    /\ HasCall(last.trace, "fetchDocStructure")

\* C8: an update with a section title that is none of the 8 known titles
\* does not report that the section has been updated.
C8_UnknownSectionIsAnError ==
    (IsUpdate /\ last.section # NoSection /\ last.section \notin SectionTitles)
    => last.report.kind # "section updated"

\* the markdown files the listing of the section's directory names
ListedDocs(section) ==
    LET files == RemoteListing(DocsPath(sectionPackages[section]))
    IN {files[i].path : i \in {j \in 1..Len(files) :
                                files[j].type = "file" /\ EndsWithMd(files[j].name)}}

\* C9: after a single-section sync of S, the pages of S are pages of files
\* of the current listing with their current content, one per file, no
\* earlier page or subsection bucket is left, and every other section is
\* what it was before.
C9_SectionSyncReplacesOnlyItsSection ==
    [][(last'.op = "fetchSectionDocStructure")
       => LET S == last'.section
              before == IF IsAbsent(disk[last'.version]) THEN <<>>
                        ELSE disk[last'.version].sections
              after == disk'[last'.version].sections
          IN /\ \A o \in DOMAIN before \ {S} :
                   o \in DOMAIN after /\ after[o] = before[o]
             /\ DOMAIN after \subseteq DOMAIN before \cup {S}
             /\ S \in SectionTitles =>
                  /\ S \in DOMAIN after
                  /\ DOMAIN after[S].subsections = {}
                  /\ \A i \in 1..Len(after[S].pages) :
                        LET page == after[S].pages[i]
                        IN /\ page.path \in ListedDocs(S)
                           /\ page.rawContent = remote[DEFAULT_BRANCH][page.path]
                           /\ CountPath(after[S].pages, page.path) = 1]_vars

\* a sync of Forms has stored two pages while Panels keeps a page
C9_Witness ==
    /\ last.op = "fetchSectionDocStructure" /\ last.section = "Forms"
    /\ ~IsAbsent(LastIndex)
    /\ HasSection(LastIndex, "Forms") /\ HasSection(LastIndex, "Panels")
    /\ Len(LastIndex.sections["Forms"].pages) = 2
    /\ \E u \in DOMAIN LastIndex.sections["Panels"].subsections :
          Len(LastIndex.sections["Panels"].subsections[u]) > 0

\* C10: a single-file upsert answers true exactly when the fetch produced
\* a page and the page is in the index file.
C10_TrueOnlyWhenStored ==
    (last.op = "processModifiedFile")
    => (last.ret <=> /\ last.produced # {}
                     /\ \A page \in last.produced : InBucket(LastIndex, page))

\* C11: a single-file upsert of a path of fewer than 3 segments, or whose
\* second segment is none of the 8 package names, answers false and leaves
\* the index files as they were: none is created, none is written.
C11_RejectedPathChangesNothing ==
    [][(/\ last'.op = "processModifiedFile"
        /\ \/ Len(last'.path) < 3
           \/ \A p \in PackageNames : last'.path[2] # Seg(p))
       => (~last'.ret /\ disk' = disk)]_vars

\* the words of a query: its maximal runs of characters other than white
\* space, lower-cased
Words(query) ==
    LET terms == SplitSpace(ToLowerCase(query))
    IN {terms[i] : i \in {j \in 1..Len(terms) : terms[j] # <<>>}}

\* the title or the body of the page contains a word of the query
Mentions(page, query) ==
    \E word \in Words(query) :
        \/ Includes(ToLowerCase(Chars(page.title)), word)
        \/ Includes(ToLowerCase(Chars(page.content)), word)

\* C12: a page whose title and body contain none of the words of the
\* query is not among the results, and when no page of the index contains
\* one the search answers "No results found".
C12_UnmatchedPagesAreLeftOut ==
    (last.op = "searchInDocIndex")
    => LET pages == SeqToSet(AllPages(LastIndex))
           results == last.answer.results
       IN /\ \A page \in pages :
                ~Mentions(page, last.query)
                => \A i \in 1..Len(results) : results[i].url # page.url
          /\ (\A page \in pages : ~Mentions(page, last.query))
                => last.answer.kind = "No results found"

\* how often the term occurs in the text, the occurrences counted from
\* left to right without overlap
RECURSIVE CountOccurrences(_, _, _)
CountOccurrences(text, term, i) ==
    IF i > Len(text) THEN 0
    ELSE IF StandsAt(text, term, i)
         THEN 1 + CountOccurrences(text, term, i + Max(1, Len(term)))
         ELSE CountOccurrences(text, term, i + 1)

RECURSIVE ClaimedScore(_, _, _)
ClaimedScore(title, content, tokens) ==
    IF tokens = <<>> THEN 0
    ELSE (IF Includes(title, Head(tokens)) THEN TitleWeight ELSE 0)
         + CountOccurrences(content, Head(tokens), 0)
         + ClaimedScore(title, content, Tail(tokens))

\* C13: the score of a page is the sum, over the tokens of the query, of
\* 10 when the token is in the lower-cased title plus the number of times
\* the token occurs in the lower-cased body.
C13_ScoreIsTitleWeightPlusOccurrences ==
    (last.op = "getSearchScore")
    => last.answer = ClaimedScore(ToLowerCase(Chars(last.page.title)),
                                  ToLowerCase(Chars(last.page.content)), last.terms)

\* the offset of the earliest occurrence of a term in the lower-cased body
EarliestMatch(content, terms) ==
    LET lower == ToLowerCase(content)
        at == {i \in 0..Len(content) :
                 \E k \in 1..Len(terms) : StandsAt(lower, terms[k], i)}
    IN IF at = {} THEN -1 ELSE CHOOSE i \in at : \A j \in at : i <= j

\* C14: with the earliest match at offset i the snippet is the body from
\* max(0, i - 100) to min(len, i + 200), with "..." before it exactly when
\* the window starts after offset 0 and "..." after it exactly when it
\* ends before the end of the body; with no match it is the first 200
\* characters and "...".
C14_SnippetWindow ==
    (last.op = "getContentSnippet")
    => LET body == Chars(last.body)
           i == EarliestMatch(body, last.terms)
           from == Max(0, i - SnippetBefore)
           to == Min(Len(body), i + SnippetAfter)
       IN IF i = -1
          THEN Chars(last.answer) = SubSeq(body, 1, Min(SnippetAfter, Len(body))) \o Ellipsis
          ELSE Chars(last.answer) =
                   (IF from > 0 THEN Ellipsis ELSE <<>>)
                   \o SubSeq(body, from + 1, to)
                   \o (IF to < Len(body) THEN Ellipsis ELSE <<>>)

\* a match further than 100 characters from the start and further than
\* 200 from the end: the snippet has both marks
C14_Witness ==
    /\ last.op = "getContentSnippet"
    /\ EarliestMatch(Chars(last.body), last.terms) > SnippetBefore
    /\ EarliestMatch(Chars(last.body), last.terms) + SnippetAfter
           < Len(Chars(last.body))
    /\ Len(Chars(last.answer)) = SnippetBefore + SnippetAfter + 2 * Len(Ellipsis)

\* the bucket of the index that the path belongs to: the page list of its
\* section for 4 segments, the subsection named after the 4th segment for
\* 5 or more
BucketOfPath(index, path) ==
    LET S == SectionOfPackage(path[2])
    IN IF Len(path) >= 5
       THEN index.sections[S].subsections[FormatSubsectionName(path[4])]
       ELSE index.sections[S].pages

\* C15: every page of a section-level list has a path of 4 segments and
\* every page of a subsection bucket has a path of 5 or more whose 4th
\* segment, formatted, is the key of the bucket; the page a single-file
\* upsert has fetched is in the bucket of its path.
C15_FourSegmentsPageFiveSubsection ==
    /\ \A v \in Versions :
          IsAbsent(disk[v]) \/
          \A S \in DOMAIN disk[v].sections :
             /\ \A i \in 1..Len(disk[v].sections[S].pages) :
                   Len(disk[v].sections[S].pages[i].path) = 4
             /\ \A u \in DOMAIN disk[v].sections[S].subsections :
                   \A i \in 1..Len(disk[v].sections[S].subsections[u]) :
                      LET path == disk[v].sections[S].subsections[u][i].path
                      IN Len(path) >= 5 /\ u = FormatSubsectionName(path[4])
    /\ (last.op = "processModifiedFile" /\ last.produced # {})
          => \A page \in last.produced :
                page \in SeqToSet(BucketOfPath(LastIndex, last.path))

\* an upsert has put a page of 5 segments into its subsection while the
\* section-level list of Forms holds a page of 4 segments
C15_Witness ==
    /\ last.op = "processModifiedFile" /\ last.produced # {}
    /\ last.path = PathT
    /\ Len(LastIndex.sections["Panels"].subsections[<<"Advanced", " ", "Usage">>]) = 1
    /\ HasOwnSection(LastIndex, "Forms")
    /\ Len(LastIndex.sections["Forms"].pages) > 0

\* C16: when checkVersions is set and the requested version is not in the
\* list the version query returned, every load, sync, upsert and save of
\* the update is made with the default version, the index file of the
\* requested version is left as it was, and the report has the warning.
C16_FallbackTouchesOnlyDefault ==
    [][(/\ last'.op = "updateDocumentation" /\ last'.checkVersions
        /\ last'.requested # NoVersion
        /\ last'.requested \notin last'.available)
       => /\ \A i \in 1..Len(last'.trace) :
                last'.trace[i].fn # "checkAvailableVersions"
                => last'.trace[i].version = DEFAULT_VERSION
          /\ \A v \in Versions \ {DEFAULT_VERSION} : disk'[v] = disk[v]
          /\ last'.report.warning]_vars

\* version 2.x, which has an index file, is asked for while the branch
\* list lacks it: the default version is synced
C16_Witness ==
    /\ IsUpdate /\ last.checkVersions /\ last.requested = "2.x"
    /\ "2.x" \notin last.available
    /\ ~IsAbsent(disk["2.x"])
    /\ last.report.warning
    /\ HasCall(last.trace, "fetchDocStructure")

\* C18: a search syncs in full exactly when the index it loads has no
\* section; when the index has a section the search fetches nothing and
\* the index files stay as they were.
C18_SearchSyncsOnlyWhenEmpty ==
    [][(last'.op = "searchDocumentation")
       => /\ HasCall(last'.trace, "fetchDocStructure") <=> last'.seen.empty
          /\ ~last'.seen.empty
               => (disk' = disk /\ last'.trace = <<Call("getDocIndex", last'.version)>>)]_vars

\* a search of an index that has pages: no sync, and a result found
C18_Witness ==
    /\ last.op = "searchDocumentation" /\ ~last.seen.empty
    /\ ~HasCall(last.trace, "fetchDocStructure")
    /\ last.answer.kind = "Search Results"

\* the request of the last call is one whose switch throws or has no case
RequestFails ==
    \/ last.request \notin ToolNames
    \/ ~ValidArguments(last.request, last.arguments)
    \/ ~last.writable

\* C17: every tool request ends in a response and none leaves the handler
\* with an uncaught error; the response is flagged isError exactly when the
\* tool is unknown, the arguments fail the schema or the facade operation
\* throws, and then carries the text of the error
C17_EveryRequestEndsInAResponse ==
    last.op = "callTool" =>
        /\ ~last.uncaught
        /\ last.response # Null
        /\ last.response.isError = RequestFails
        /\ last.request \notin ToolNames =>
              last.response.text = <<"Unknown tool: ", last.request>>
        /\ (last.request \in ToolNames /\ RequestFails) =>
              last.response.text[1] = "Error executing tool: "

\* an update_docs request with good arguments whose facade operation threw
C17_Witness ==
    /\ last.op = "callTool"
    /\ last.request = "update_docs"
    /\ updateDocsSchema(last.arguments)
    /\ ~last.writable
    /\ last.response.isError

\* C19: in every index reached by full syncs, section syncs under any
\* title and single-file upserts of any path, every key of sections is one
\* of the eight display titles
C19_SectionKeysAreDisplayTitles ==
    \A v \in Versions :
        ~IsAbsent(disk[v]) => DOMAIN disk[v].sections \subseteq SectionTitles

\* C20: while no commit changes the remote files, the raw content of every
\* page of an index is the remote content of the page's path at the ref of
\* the page's version, never the content of another ref
C20_PageComesFromItsRef ==
    \A v \in Versions : \A bucket \in Buckets(disk[v]) :
        \A i \in 1..Len(bucket) :
            bucket[i].rawContent = remote[bucket[i].version][bucket[i].path]

\* the call of the fetcher has ended
CallEnded == last.pc \in {"done", "processed"}

\* the requests of the call that were answered with data
Answered == {i \in 1..Len(last.outcomes) : last.outcomes[i].kind = "ok"}

\* C21: when the content source fails for the path, processMarkdownFile
\* signals an error to its caller; it returns null only for a document
\* whose title or body is empty
C21_TransportFailureIsSignalled ==
    (last.op = "fetchGitHubContent" /\ last.pc = "processed") =>
        /\ last.result.kind = "threw" => last.page.kind = "threw"
        /\ (last.page.kind = "returned" /\ IsNull(last.page.value)) =>
              /\ last.result.kind = "returned"
              /\ \/ extractTitleFromMarkdown(last.result.value) = ""
                 \/ parseMarkdownContent(last.result.value) = ""

\* at most three requests; the content of the first request answered is
\* returned; after three failures the error of the third is thrown
FetchEndsAsClaimed ==
    last.op = "fetchGitHubContent" =>
        /\ last.requests <= 3
        /\ CallEnded =>
              IF Answered # {}
              THEN /\ Answered = {Len(last.outcomes)}
                   /\ last.result = [kind |-> "returned",
                                     value |-> remote[DEFAULT_BRANCH][PathA]]
              ELSE /\ Len(last.outcomes) = 3
                   /\ last.result = [kind |-> "threw",
                                     error |-> [attempt |-> 3,
                                                kind |-> last.outcomes[3].kind]]

\* C24: fetchGitHubContent ends whatever the requests meet; it makes at
\* most 3 requests, returns the content of the first one answered and
\* after 3 failures throws the error of the last attempt
C24_FetchContentTerminates ==
    /\ []FetchEndsAsClaimed
    /\ <>(last.op = "fetchGitHubContent" => CallEnded)

\* three requests failed and the call threw
C24_Witness ==
    /\ last.op = "fetchGitHubContent"
    /\ last.pc = "done"
    /\ last.requests = 3
    /\ last.result.kind = "threw"

\* C25: listGitHubDirectory never throws; it makes at most 3 requests,
\* returns the listing of the first one answered and after 3 failures
\* returns the empty sequence
C25_ListDirectoryNeverRaises ==
    last.op = "listGitHubDirectory" =>
        /\ last.requests <= 3
        /\ last.result.kind # "threw"
        /\ CallEnded =>
              IF Answered # {}
              THEN /\ Answered = {Len(last.outcomes)}
                   /\ last.result = [kind |-> "returned",
                                     value |-> RemoteListing(DocsPath("forms"))]
              ELSE /\ Len(last.outcomes) = 3
                   /\ last.result = [kind |-> "returned", value |-> <<>>]

\* three requests failed and the call returned the empty sequence
C25_Witness ==
    /\ last.op = "listGitHubDirectory"
    /\ last.pc = "done"
    /\ last.requests = 3
    /\ Answered = {}
    /\ last.result = [kind |-> "returned", value |-> <<>>]

\* C26: in both fetchers the wait after a rate-limited attempt is
\* max(reset time - now, 0) capped at 60000 ms and lies in [0, 60000];
\* the wait after another failed attempt k is 2^k seconds and is made
\* only when k < 3; no wait follows the final attempt
C26_WaitsAreBoundedAndNotAfterLast ==
    last.op \in Fetchers =>
        \A i \in 1..Len(last.waits) :
            LET wait == last.waits[i] IN
            /\ wait.after < 3
            /\ wait.kind = "rate limit" =>
                  /\ ~wait.waitTime.nan
                  /\ wait.waitTime.ms >= 0
                  /\ wait.waitTime.ms <= 60000
            /\ wait.kind = "backoff" =>
                  /\ ~wait.waitTime.nan
                  /\ wait.waitTime.ms = (2 ^ wait.after) * 1000

\* the markdown files a full sync finds in the listings that do not fail
\* and whose fetch does not fail
Fetchable(listFail, fetchFail) ==
    {p \in {PathA, PathB} : DocsPath("forms") \notin listFail /\ p \notin fetchFail}

\* the pages of the path among the pages of section Forms
FormsPagesOf(index, filePath) ==
    IF IsAbsent(index) \/ "Forms" \notin DOMAIN index.sections THEN 0
    ELSE CountPath(index.sections["Forms"].pages, filePath)

\* C22: a listing failure of one category or a fetch failure of one file
\* does not abort a full sync: every category has its section, every
\* markdown entry listed and fetched without failure adds its page (one
\* made of the remote content), and the index is persisted as returned
C22_FullSyncSurvivesFailures ==
    [][last'.op = "fetchDocStructure" =>
          /\ last'.persisted
          /\ SectionTitles \subseteq DOMAIN disk'[last'.version].sections
          /\ \A p \in {PathA, PathB} :
                /\ FormsPagesOf(disk'[last'.version], p)
                      = FormsPagesOf(disk[last'.version], p)
                        + (IF /\ p \in Fetchable(last'.listFail, last'.fetchFail)
                              /\ parseMarkdownContent(remote[DEFAULT_BRANCH][p]) # ""
                           THEN 1 ELSE 0)
                /\ p \in Fetchable(last'.listFail, last'.fetchFail)
                      /\ parseMarkdownContent(remote[DEFAULT_BRANCH][p]) # ""
                   => \E i \in 1..Len(disk'[last'.version].sections["Forms"].pages) :
                         LET page == disk'[last'.version].sections["Forms"].pages[i]
                         IN /\ page.path = p
                            /\ page.rawContent = remote[DEFAULT_BRANCH][p]]_vars

\* the listing of the first category failed, or the fetch of the first
\* file, and the file after it has its page in the persisted index
C22_Witness ==
    /\ last.op = "fetchDocStructure"
    /\ last.persisted
    /\ \/ last.listFail = {DocsPath("actions")}
       \/ last.fetchFail = {PathA}
    /\ FormsPagesOf(disk[last.version], PathB) = 1

\* C23: a single-section sync one of whose requests fails on every
\* attempt ends in an error and leaves the index file as it was (none, or
\* a new empty one where there was none): it does not persist the section
\* emptied or partly filled
C23_SectionSyncPropagatesFailure ==
    [][(/\ last'.op = "fetchSectionDocStructure"
        /\ (last'.listFail # {} \/ last'.fetchFail # {})) =>
          IF IsAbsent(disk[last'.version])
          THEN DOMAIN disk'[last'.version].sections = {}
          ELSE disk'[last'.version] = disk[last'.version]]_vars

\* C28: the lastUpdated a full sync persists is not earlier than the time
\* at which its last listing or fetch completed
C28_LastUpdatedAfterLastRequest ==
    last.op = "fetchDocStructure" =>
        disk[last.version].lastUpdated >= last.fetched

\* C27: getDocIndex never throws, whatever the read and the write of the
\* storage do; when the file is absent or cannot be read it returns a new
\* index {version, lastUpdated: now, sections: {}} and that index is what
\* the file of the version holds afterwards
C27_GetDocIndexNeverFails ==
    [][last'.op = "getDocIndex" =>
          /\ ~last'.thrown
          /\ (IsAbsent(disk[last'.version]) \/ ~last'.readable) =>
                /\ last'.index = [version |-> last'.version, lastUpdated |-> now,
                                  sections |-> <<>>]
                /\ disk'[last'.version] = last'.index]_vars

\* the place of the file name of a path in the order of the names
FileNameRank(filePath) ==
    LET name == filePath[Len(filePath)] IN
    CASE name = Md("01", "a") -> 1
      [] name = Md("01", "t") -> 2
      [] name = Md("02", "b") -> 3

\* the pages of every bucket of the index are in ascending order of their
\* file names
Ascending(index) ==
    \A bucket \in Buckets(index) :
        \A i, j \in 1..Len(bucket) :
            i < j => FileNameRank(bucket[i].path) <= FileNameRank(bucket[j].path)

\* C29: after a full sync or a single-section sync, the single-file
\* upserts keep the pages of each bucket in ascending order of their file
\* names
C29_UpsertKeepsFileNameOrder ==
    [][(/\ last.op \in {"fetchDocStructure", "fetchSectionDocStructure"}
        /\ Ascending(disk[last.version])
        /\ last'.op = "processModifiedFile"
        /\ last'.version = last.version) =>
          Ascending(disk'[last'.version])]_vars

\* both operations have saved
BothSaved == last.op = "race" /\ Len(last.order) = 2

\* the pages of the path in the index
PagesOf(index, filePath) ==
    {page \in UNION {SeqToSet(bucket) : bucket \in Buckets(index)} :
        page.path = filePath}

\* the paths whose pages the operation writes
Touches(call) ==
    IF call.fn = "processModifiedFile" THEN {call.path} ELSE {PathA, PathB}

\* C30: the writers of one version's index are not serialized.  When two
\* operations that load, change and save the index interleave, the file
\* holds in the end what the last save wrote; when that operation loaded
\* its index before the other one saved, the file lacks the pages the
\* other one added
C30_LastSaveWins ==
    BothSaved =>
        LET second == last.writer[last.order[2]]
            first  == last.writer[last.order[1]]
        IN /\ disk[last.version] = second.wrote
           /\ second.stale =>
                 \A p \in Touches(first.call) \ Touches(second.call) :
                    PagesOf(second.index, p) = {} =>
                       PagesOf(disk[last.version], p) = {}

\* two upserts of different paths interleaved: the first one saved its
\* page, and the file lacks it after the second save
C30_Witness ==
    /\ BothSaved
    /\ last.writer[last.order[2]].stale
    /\ \E p \in Touches(last.writer[last.order[1]].call) :
          /\ PagesOf(last.writer[last.order[1]].wrote, p) # {}
          /\ PagesOf(disk[last.version], p) = {}

\* the sections of the index other than the one named are, in the second
\* index, what they are in the first
OtherSectionsKept(before, after, section) ==
    /\ DOMAIN after.sections \subseteq DOMAIN before.sections \cup {section}
    /\ \A other \in DOMAIN before.sections \ {section} :
          /\ other \in DOMAIN after.sections
          /\ after.sections[other] = before.sections[other]

FeedRequestFailed(answer) ==
    ~answer.ok \/ \E i \in 1..Len(answer.commits) : ~answer.commits[i].ok

\* the markdown files under a docs directory that the commits changed
ChangedDocs(answer) ==
    {p \in CommitPaths :
        /\ \E i \in 1..Len(answer.commits) :
              /\ answer.commits[i].ok
              /\ \E j \in 1..Len(answer.commits[i].files) :
                    answer.commits[i].files[j] = p
        /\ p[Len(p)][Len(p[Len(p)])] = ".md"
        /\ \E k \in 2..(Len(p) - 1) : p[k] = <<"docs">>}

\* C32: checkModifiedFiles loads and writes no index; it returns each
\* changed path once at most, only paths that contain '/docs/' and end in
\* '.md', and the empty list when a request of the feed fails, also when
\* commits before the failing one were resolved
C32_ModifiedFilesOrNothing ==
    last.op = "checkModifiedFiles" =>
        /\ \A v \in Versions : IsAbsent(disk[v])
        /\ \A i, j \in 1..Len(last.feed) : last.feed[i] = last.feed[j] => i = j
        /\ IF FeedRequestFailed(last.commits)
           THEN last.feed = <<>>
           ELSE SeqToSet(last.feed) = ChangedDocs(last.commits)

\* the first commit was resolved to a markdown file under docs, the query
\* of the second failed, and the list returned is empty
C32_Witness ==
    /\ last.op = "checkModifiedFiles"
    /\ last.commits.ok
    /\ Len(last.commits.commits) = 2
    /\ last.commits.commits[1] = [ok |-> TRUE, files |-> <<PathA>>]
    /\ ~last.commits.commits[2].ok
    /\ last.feed = <<>>

\* the bucket processModifiedFile chooses for a path: the key of the
\* section of its package and, for a path of 5 or more segments, the
\* formatted 4th segment
UpsertBucket(filePath) ==
    <<KeyOf(SectionOfPackage(filePath[2])),
      IF IsSubsection(filePath) THEN FormatSubsectionName(filePath[4])
      ELSE NoSubsection>>

\* the buckets of the index that hold a page of the path
HoldersOf(index, filePath) ==
    IF IsAbsent(index) THEN {}
    ELSE {<<s, NoSubsection>> : s \in {t \in DOMAIN index.sections :
              CountPath(index.sections[t].pages, filePath) > 0}}
         \cup UNION {{<<s, u>> : u \in {w \in DOMAIN index.sections[s].subsections :
                          CountPath(index.sections[s].subsections[w], filePath) > 0}} :
                     s \in DOMAIN index.sections}

\* the page list of the bucket <<section key, subsection key>>
BucketAt(index, bucket) ==
    IF bucket[2] = NoSubsection THEN index.sections[bucket[1]].pages
    ELSE index.sections[bucket[1]].subsections[bucket[2]]

\* the paths of the pages the index holds
StoredPaths(index) ==
    {page.path : page \in UNION {SeqToSet(bucket) : bucket \in Buckets(index)}}

\* C33: the syncs and the single-file upsert classify a path alike.  After
\* a full or a single-section sync every stored page is in the bucket the
\* upsert chooses for its path; and an upsert that fetched a page for a
\* path under a known package, of which the index already held pages,
\* leaves the path in the bucket it was in, with the fetched page as its
\* only page.
C33_SyncAndUpsertClassifyAlike ==
    [][/\ (last'.op \in {"fetchDocStructure", "fetchSectionDocStructure"}
           /\ ~IsAbsent(disk'[last'.version]))
          => \A filePath \in StoredPaths(disk'[last'.version]) :
                HoldersOf(disk'[last'.version], filePath) = {UpsertBucket(filePath)}
       /\ (/\ last'.op = "processModifiedFile" /\ last'.produced # {}
           /\ last'.path[2][1] \in PackageNames
           /\ HoldersOf(disk[last'.version], last'.path) # {})
          => /\ HoldersOf(disk'[last'.version], last'.path)
                   = HoldersOf(disk[last'.version], last'.path)
             /\ HoldersOf(disk'[last'.version], last'.path)
                   = {UpsertBucket(last'.path)}
             /\ PagesOf(disk'[last'.version], last'.path) = last'.produced
             /\ CountPath(BucketAt(disk'[last'.version], UpsertBucket(last'.path)),
                          last'.path) = 1]_vars

\* an upsert has put the page of 01-a.md into the page list of Forms, which
\* also holds the page of 02-b.md that only a sync stores, and the list
\* holds one page of 01-a.md
C33_Witness ==
    /\ last.op = "processModifiedFile" /\ last.produced # {}
    /\ last.path = PathA
    /\ HasOwnSection(LastIndex, "Forms")
    /\ CountPath(LastIndex.sections["Forms"].pages, PathB) > 0
    /\ CountPath(LastIndex.sections["Forms"].pages, PathA) = 1
    /\ HoldersOf(LastIndex, PathA) = {<<"Forms", NoSubsection>>}

\* the index has the 8 fixed section keys
HasAllSections(index) ==
    ~IsAbsent(index) /\ SectionTitles \subseteq DOMAIN index.sections

ReportsUpToDate(call) ==
    /\ call.op = "updateDocumentation"
    /\ call.report.kind \in {"up to date", "section up to date"}

\* C35: an update that reports 'already up to date', with or without a
\* section, leaves every index file as it was before the call.
C35_UpToDateChangesNothing ==
    [][ReportsUpToDate(last') => disk' = disk]_vars

\* the same for the calls that find an index file
UpToDateKeepsAFileFound ==
    [][(ReportsUpToDate(last') /\ ~IsAbsent(disk[last'.version])) => disk' = disk]_vars

\* C36: staleness is kept once for the index.  A single-section sync of a
\* known section sets lastUpdated of the index to the time of the sync;
\* and an update without section and force, made 7 days at most after the
\* latest single-section sync, reads the change feed and runs no full
\* sync, however long ago the latest full sync was.  (A step that leaves
\* the clock as it is is a call.)
C36_SectionSyncRefreshesTheIndex ==
    [][/\ (/\ now' = now
           /\ last'.op = "updateDocumentation"
           /\ last'.section \in SectionTitles
           /\ HasCall(last'.trace, "fetchSectionDocStructure"))
          => /\ disk'[last'.version].lastUpdated = now
             /\ HasOwnSection(disk'[last'.version], last'.section)
       /\ (/\ now' = now
           /\ last'.op = "updateDocumentation"
           /\ last'.section = NoSection /\ ~last'.force
           /\ last.synced.section # {}
           /\ \A t \in last.synced.section : now - t <= StaleDays)
          => /\ HasCall(last'.trace, "checkModifiedFiles")
             /\ ~HasCall(last'.trace, "fetchDocStructure")]_vars

\* the latest full sync was made more than 7 days ago, a section has been
\* synced since, at least a day ago, and the update without section and
\* force has read the change feed and run no full sync
C36_Witness ==
    /\ IsUpdate /\ last.section = NoSection /\ ~last.force
    /\ \E t \in last.synced.full : now - t > StaleDays
    /\ \E t \in last.synced.section : now - t > 0 /\ now - t <= StaleDays
    /\ HasCall(last.trace, "checkModifiedFiles")
    /\ ~HasCall(last.trace, "fetchDocStructure")

\* every bucket of the old index is in the new one with the same pages,
\* and the buckets the new index has more are empty
PagesKept(old, new) ==
    /\ ~IsAbsent(new)
    /\ IF IsAbsent(old)
       THEN \A bucket \in Buckets(new) : bucket = <<>>
       ELSE /\ new.version = old.version /\ new.lastUpdated = old.lastUpdated
            /\ DOMAIN old.sections \subseteq DOMAIN new.sections
            /\ \A s \in DOMAIN new.sections :
                  IF s \in DOMAIN old.sections
                  THEN /\ new.sections[s].pages = old.sections[s].pages
                       /\ DOMAIN old.sections[s].subsections
                             \subseteq DOMAIN new.sections[s].subsections
                       /\ \A u \in DOMAIN new.sections[s].subsections :
                             new.sections[s].subsections[u] =
                                IF u \in DOMAIN old.sections[s].subsections
                                THEN old.sections[s].subsections[u] ELSE <<>>
                  ELSE /\ new.sections[s].pages = <<>>
                       /\ \A u \in DOMAIN new.sections[s].subsections :
                             new.sections[s].subsections[u] = <<>>

\* C37: a single-file upsert of an accepted path that gets no page, the
\* fetch having failed or the body being empty, keeps every page of the
\* index, the earlier page of the path included, in its bucket and in its
\* place; all it may add is an empty section or an empty subsection
\* bucket.  The index files of the other versions are left as they were.
C37_UpsertWithoutPageKeepsPages ==
    [][(last'.op = "processModifiedFile" /\ last'.ret /\ last'.produced = {})
       => /\ PagesKept(disk[last'.version], disk'[last'.version])
          /\ \A v \in Versions \ {last'.version} : disk'[v] = disk[v]]_vars

\* the fetch of 01-a.md failed in an upsert, and the page list of Forms
\* still holds the page of 01-a.md stored before
C37_Witness ==
    /\ last.op = "processModifiedFile" /\ last.ret /\ last.produced = {}
    /\ last.path = PathA /\ ~last.clean
    /\ HasOwnSection(LastIndex, "Forms")
    /\ CountPath(LastIndex.sections["Forms"].pages, PathA) > 0

====
